---- MODULE Spec2Model ----
(***************************************************************************)
(* Model of tools/ecp_vlog.py: the connection graph (Ident, Node,          *)
(* ConnectionGraph, Component), the config-graph builder and its expansion *)
(* pass (gen_config_graph), the netlist emitter (print_verilog) and the    *)
(* LPF reader (parse_lpf).                                                 *)
(*                                                                         *)
(* Python strings are modelled as sequences of one-character strings, so   *)
(* that indexing, prefixes, suffixes and concatenation are computed.       *)
(***************************************************************************)
EXTENDS Integers, Sequences, FiniteSets, TLC

VARIABLES
    idents,       \* the identifier store of the routing graph: label at position id
    graph,        \* ConnectionGraph under analysis: [edges_fwd, edges_rev]
    components,   \* value returned by the last get_components call
    pc,           \* position of the running operation
    nodes,        \* Component.nodes of the component being analysed (self.nodes)
    todo,         \* nodes the outer "for x in self.nodes" loop has not reached yet
    stack,        \* call stack of the local visit(): frames [node, iter]
    seen,         \* the local dict seen: node -> 0 (in progress) / 1 (done)
    result,       \* the local set roots / leaves
    stderr,       \* lines the running operation wrote to sys.stderr
    entered,      \* how many times the body of visit() past the seen test ran, per node
    lpf_commands, \* parse_lpf: the list commands, each already split into words
    lpf_index,    \* parse_lpf: number of commands the loop has consumed
    lpf_pc,       \* parse_lpf: "loop", "returned" or "raised"
    sites,        \* parse_lpf: the dict sites
    lpf_stderr,   \* parse_lpf: the commands reported on sys.stderr
    tiles_by_loc, \* gen_config_graph: the defaultdict tiles_by_loc, (x, y) -> list of TileData
    config_graph, \* gen_config_graph: the ConnectionGraph config_graph
    cfg_pc,       \* gen_config_graph: position ("call", "returned", "raised", ...)
    cfg_stderr,   \* gen_config_graph: the lines written to sys.stderr
    call,         \* the arguments [sourcenode, sinknode] of the add_edge call under study
    device,       \* the chip and its routing database: the facts gen_config_graph is run on
    cfg_cursor,   \* config arc loop: [locs, tile, arc], the iterations still to run
    cfg_size,     \* config arc loop: len(tiles_by_loc) when "for loc in tiles_by_loc" began
    arc_graph,    \* gen_config_graph: the ConnectionGraph arc_graph
    nodes_seen,   \* gen_config_graph: the set nodes_seen
    bels_todo,    \* gen_config_graph: the set bels_todo
    arcs_left,    \* the edges of config_graph the loop of lines 414-418 has not reached
    bels_left,    \* the nodes of bels_todo the loop of lines 424-436 has not reached
    visit_log,    \* the nodes in the order visit_node added them to nodes_seen
    zero_edges,   \* the edges the zero-bit branch of visit_node passed to add_edge
    natsort_imported,  \* whether "from natsort import natsorted" succeeded (lines 9-13)
    pv_pc,             \* print_verilog: position ("call", "components", ..., "returned", "raised")
    sorted_components, \* print_verilog: the list sorted_components of [component, roots, leaves]
    component_index,   \* print_verilog: how many entries the loop of line 871 has consumed
    mod_sources,       \* print_verilog: the set mod_sources
    mod_sinks,         \* print_verilog: the dict mod_sinks, sink node -> root node
    mod_globals,       \* print_verilog: the set mod_globals
    modules,           \* print_verilog: the dict modules, mod_name -> Module
    globals_left,      \* the nodes of mod_globals a loop of lines 896-906 has not reached
    stdout,            \* print_verilog: the lines printed to sys.stdout
    cmp_self,          \* Node comparison: the left operand
    cmp_other,         \* Node comparison: the right operand
    cmp_result         \* Node comparison: [state], and what <, > and == gave once done

graphVars == <<graph, components, pc, nodes, todo, stack, seen, result, stderr, entered>>

lpfVars == <<lpf_commands, lpf_index, lpf_pc, sites, lpf_stderr>>

cfgVars == <<tiles_by_loc, config_graph, cfg_pc, cfg_stderr, call, device, cfg_cursor, cfg_size,
             arc_graph, nodes_seen, bels_todo, arcs_left, bels_left, visit_log, zero_edges>>

pvVars == <<natsort_imported, pv_pc, sorted_components, component_index, mod_sources, mod_sinks,
            mod_globals, modules, globals_left, stdout>>

cmpVars == <<cmp_self, cmp_other, cmp_result>>

vars == <<graphVars, lpfVars, cfgVars, pvVars, cmpVars, idents>>

notGraph == <<lpfVars, cfgVars, pvVars, cmpVars, idents>>

notLpf == <<graphVars, cfgVars, pvVars, cmpVars, idents>>

notCfg == <<graphVars, lpfVars, pvVars, cmpVars, idents>>

\* what print_verilog leaves alone: it reads graph and tiles_by_loc (both defaultdicts) and
\* get_roots / get_leaves write sys.stderr
notVerilog == <<components, pc, nodes, todo, stack, seen, result, entered, lpfVars,
               config_graph, cfg_pc, cfg_stderr, call, device, cfg_cursor, cfg_size, arc_graph,
               nodes_seen, bels_todo, arcs_left, bels_left, visit_log, zero_edges, idents,
               natsort_imported, cmpVars>>

----------------------------------------------------------------------------
(* Bounds of the model *)

NumNodes == 3
MaxEdges == 3
MaxVisits == 2
MaxCommands == 3

----------------------------------------------------------------------------
(* Python str helpers *)

Digits == <<"0", "1", "2", "3", "4", "5", "6", "7", "8", "9">>

Digit(i) == Digits[i + 1]

startswith(s, p) == Len(s) >= Len(p) /\ SubSeq(s, 1, Len(p)) = p

endswith(s, p) == Len(s) >= Len(p) /\ SubSeq(s, Len(s) - Len(p) + 1, Len(s)) = p


----------------------------------------------------------------------------
(* String constants of the program and of the device database *)

RECURSIVE str(_)
\* str(n) of a non-negative int, as in the f-string of Node.mod_name
str(n) == IF n < 10 THEN <<Digit(n)>> ELSE str(n \div 10) \o <<Digit(n % 10)>>

\* "sub in s"
contains(s, sub) == \E i \in 1..(Len(s) - Len(sub) + 1) : SubSeq(s, i, i + Len(sub) - 1) = sub

\* s[-1]
last(s) == s[Len(s)]

\* the value None where the program expects an Optional[str]
PyNone == <<"None">>

s_SLICE_suffix == <<"_", "S", "L", "I", "C", "E">>

s_SLICE == <<"S", "L", "I", "C", "E">>

s_dot_MODE == <<".", "M", "O", "D", "E">>

s_PLC2 == <<"P", "L", "C", "2">>

s_CCU2 == <<"C", "C", "U", "2">>

s_LOGIC == <<"L", "O", "G", "I", "C">>

s_RXDATA == <<"R", "X", "D", "A", "T", "A">>

s_TXDATA == <<"T", "X", "D", "A", "T", "A">>

s_RX == <<"R", "X">>

s_IOLOGIC == <<"I", "O", "L", "O", "G", "I", "C">>

s_IOLOGICA == <<"I", "O", "L", "O", "G", "I", "C", "A">>

s_IOLOGICC == <<"I", "O", "L", "O", "G", "I", "C", "C">>

s_IDDRXN_MODE == <<"I", "D", "D", "R", "X", "N", ".", "M", "O", "D", "E">>

s_ODDRXN_MODE == <<"O", "D", "D", "R", "X", "N", ".", "M", "O", "D", "E">>

s_IDDR71 == <<"I", "D", "D", "R", "7", "1">>

s_ODDR71 == <<"O", "D", "D", "R", "7", "1">>

s_IDDRX1 == <<"I", "D", "D", "R", "X", "1", "_", "O", "D", "D", "R", "X", "1">>

s_PICL0 == <<"P", "I", "C", "L", "0">>

s_PICL2 == <<"P", "I", "C", "L", "2">>

s_PIOA == <<"P", "I", "O", "A">>

s_arrow == <<"-", ">">>

s_fixed == <<"=", ">">>

s_G_HPBX == <<"G", "_", "H", "P", "B", "X">>

s_L_HPBX == <<"L", "_", "H", "P", "B", "X">>

s_R_HPBX == <<"R", "_", "H", "P", "B", "X">>

s_G_VPTX == <<"G", "_", "V", "P", "T", "X">>

s_G_HPRX == <<"G", "_", "H", "P", "R", "X">>

s_G_ == <<"G", "_">>

s_PCLK == <<"P", "C", "L", "K">>

s_00 == <<"0", "0">>

s_TAP_DRIVE == <<"T", "A", "P", "_", "D", "R", "I", "V", "E">>

s_CMUX == <<"C", "M", "U", "X">>

s_O == <<"O">>

s_I == <<"I">>

s_INDD == <<"I", "N", "D", "D">>

s_IOLDO == <<"I", "O", "L", "D", "O">>

s_IOLTO == <<"I", "O", "L", "T", "O">>

s_ECLKSYNC == <<"_", "E", "C", "L", "K", "S", "Y", "N", "C">>

s_ADA0 == <<"A", "D", "A", "0">>

s_EBR == <<"E", "B", "R">>

s_MIB_EBR == <<"M", "I", "B", "_", "E", "B", "R">>

s_UL == <<"U", "L">>

----------------------------------------------------------------------------
(* Ident and Node *)

WireLabel(i) == <<"W">> \o str(i)

\* names of the slice wires and of the I/O logic blocks and their data pins
SliceLabels ==
    <<<<"F", "5", "A", "_", "S", "L", "I", "C", "E">>, <<"F", "X", "B", "_", "S", "L", "I", "C", "E">>, <<"F", "0">>, <<"F", "1">>, <<"F", "0", "_", "S", "L", "I", "C", "E">>, <<"F", "1", "_", "S", "L", "I", "C", "E">>, <<"S", "L", "I", "C", "E", "A">>>>

IoLogicLabels == [i \in 1..4 |-> s_IOLOGIC \o <<SubSeq(<<"A", "B", "C", "D">>, i, i)[1]>>]

DataPinLabels ==
    [i \in 1..7 |-> s_RXDATA \o <<Digit(i - 1)>>] \o [i \in 1..7 |-> s_TXDATA \o <<Digit(i - 1)>>]


\* names of wires, bels, pins and global clock wires of the device database
W1 == <<"W", "1">>

W2 == <<"W", "2">>

W3 == <<"W", "3">>

W4 == <<"W", "4">>

W5 == <<"W", "5">>

W6 == <<"W", "6">>

W7 == <<"W", "7">>

W8 == <<"W", "8">>

W9 == <<"W", "9">>

s_F5A_SLICE == <<"F", "5", "A", "_", "S", "L", "I", "C", "E">>

s_F1 == <<"F", "1">>

s_F1_SLICE == <<"F", "1", "_", "S", "L", "I", "C", "E">>

s_SLICEA == <<"S", "L", "I", "C", "E", "A">>

s_SLICEB == <<"S", "L", "I", "C", "E", "B">>

s_A0 == <<"A", "0">>

s_Q0 == <<"Q", "0">>

s_M0 == <<"M", "0">>

s_EBR0 == <<"E", "B", "R", "0">>

s_G_HPBX0100 == <<"G", "_", "H", "P", "B", "X", "0", "1", "0", "0">>

s_L_HPBX0100 == <<"L", "_", "H", "P", "B", "X", "0", "1", "0", "0">>

s_R_HPBX0100 == <<"R", "_", "H", "P", "B", "X", "0", "1", "0", "0">>

s_G_VPTX0100 == <<"G", "_", "V", "P", "T", "X", "0", "1", "0", "0">>

s_G_HPRX0100 == <<"G", "_", "H", "P", "R", "X", "0", "1", "0", "0">>

s_G_ULPCLK1 == <<"G", "_", "U", "L", "P", "C", "L", "K", "1">>

\* names of the bels of a logic tile and of their pins
BelLabels == <<s_SLICEB, s_A0, s_Q0, s_M0, s_EBR0>>

\* names of the global clock wires: tile input, tap outputs, spine, centre mux output
GlobalLabels ==
    <<s_G_HPBX0100, s_L_HPBX0100, s_R_HPBX0100, s_G_VPTX0100, s_G_HPRX0100, s_G_ULPCLK1>>

\* names of the blocks and pins of the netlists print_verilog is run on
NetLabels == <<s_PIOA, s_O, s_I, s_INDD, s_ADA0>>

\* Location(x, y) and RoutingId {loc, id}
Location(x, y) == [x |-> x, y |-> y]

loc_P == Location(1, 1)

loc_T == Location(0, 1)

loc_S == Location(1, 0)

\* the arcs of the routing database, as [loc, source, sep, sink]: the arc is stored in the
\* tile at loc under the name source sep sink and joins two wires of that tile
DbArc(loc, source, sep, sink) == [loc |-> loc, source |-> source, sep |-> sep, sink |-> sink]

\* the configurable arcs every device of the family has
ConfigurableArcs ==
    <<DbArc(loc_P, W1, s_arrow, W2),
      DbArc(loc_P, W3, s_arrow, W2),
      DbArc(loc_P, W2, s_arrow, W1),
      DbArc(loc_P, W4, s_arrow, W1),
      DbArc(loc_P, W1, s_arrow, W4),
      DbArc(loc_P, s_F5A_SLICE, s_arrow, s_F1),
      DbArc(loc_P, s_F1_SLICE, s_arrow, s_F1),
      DbArc(loc_P, s_G_HPBX0100, s_arrow, W3),
      DbArc(loc_T, s_G_VPTX0100, s_arrow, s_R_HPBX0100),
      DbArc(loc_S, s_G_HPRX0100, s_arrow, s_G_VPTX0100)>>

\* the fixed arcs a device of the family may have
FixedArcs ==
    <<DbArc(loc_P, W2, s_fixed, W5),
      DbArc(loc_P, W5, s_fixed, W2),
      DbArc(loc_P, W6, s_fixed, W7)>>

\* a configured arc whose name the routing database does not have
UnroutedArc == DbArc(loc_P, W8, s_arrow, W2)

ArcName(arc) == arc.source \o arc.sep \o arc.sink

ArcLabels ==
    [i \in 1..Len(ConfigurableArcs) |-> ArcName(ConfigurableArcs[i])]
        \o [i \in 1..Len(FixedArcs) |-> ArcName(FixedArcs[i])] \o <<ArcName(UnroutedArc)>>

\* the identifier store of the routing graph once the database is loaded: position = id
IdTable ==
    [i \in 1..(IF NumNodes < 9 THEN 9 ELSE NumNodes) |-> WireLabel(i)]
        \o SliceLabels \o IoLogicLabels \o DataPinLabels \o BelLabels \o GlobalLabels \o ArcLabels
        \o NetLabels

rgraph_ident(label) == CHOOSE i \in 1..Len(idents) : idents[i] = label

rgraph_to_str(id) == idents[id]

Ident(label, id) == [label |-> label, id |-> id]

Ident_from_id(id) == Ident(rgraph_to_str(id), id)

Ident_from_label(label) == Ident_from_id(rgraph_ident(label))

\* Optional[Ident] = None
None == [label |-> <<>>, id |-> 0 - 1]

Node(y, x, id, pin) == [y |-> y, x |-> x, id |-> id, pin |-> pin]

Node_name(node) == node.id.label

Node_pin_name(node) == IF node.pin = None THEN <<>> ELSE node.pin.label

Node_mod_name(node) ==
    <<"R">> \o str(node.y) \o <<"C">> \o str(node.x) \o <<"_">> \o Node_name(node)

----------------------------------------------------------------------------
(* ConnectionGraph *)

\* a defaultdict(set): a function from its keys to sets
EmptyMap == [n \in {} |-> {}]

\* d[k] read on a defaultdict: the value (the default for a missing key)
Get(d, k) == IF k \in DOMAIN d THEN d[k] ELSE {}

\* d[k] on a defaultdict also inserts a missing key with the default
Touch(d, k) == [n \in DOMAIN d \cup {k} |-> Get(d, n)]

\* d[k].add(v)
AddTo(d, k, v) == [n \in DOMAIN d \cup {k} |-> IF n = k THEN Get(d, k) \cup {v} ELSE d[n]]

ConnectionGraph == [edges_fwd |-> EmptyMap, edges_rev |-> EmptyMap]

\* an add_edge that leaves the reverse map alone
ConnectionGraph_add_edge_forward_only(g, source, sink) ==
    [edges_fwd |-> AddTo(g.edges_fwd, source, sink), edges_rev |-> g.edges_rev]

ConnectionGraph_add_edge(g, source, sink) ==
    [edges_fwd |-> AddTo(g.edges_fwd, source, sink),
     edges_rev |-> AddTo(g.edges_rev, sink, source)]

Edges(g) == {e \in (DOMAIN g.edges_fwd) \X (DOMAIN g.edges_rev) : e[2] \in g.edges_fwd[e[1]]}

\* get_components.visit(node, component): returns [seen, nodes] after the call
RECURSIVE components_visit(_, _, _)
RECURSIVE components_visit_all(_, _, _)
\* a visit of get_components that follows the forward edges only
components_visit_forward_only(g, node, st) ==
    IF node \in st.seen THEN st
    ELSE LET st1 == [seen |-> st.seen \cup {node}, nodes |-> st.nodes \cup {node}]
         IN IF node \in DOMAIN g.edges_fwd
            THEN components_visit_all(g, g.edges_fwd[node], st1) ELSE st1

components_visit(g, node, st) ==
    IF node \in st.seen THEN st
    ELSE LET st1 == [seen |-> st.seen \cup {node}, nodes |-> st.nodes \cup {node}]
             st2 == IF node \in DOMAIN g.edges_fwd
                    THEN components_visit_all(g, g.edges_fwd[node], st1) ELSE st1
         IN IF node \in DOMAIN g.edges_rev
            THEN components_visit_all(g, g.edges_rev[node], st2) ELSE st2

\* "for x in <set>: visit(x, component)"; seen makes the result independent of the order
components_visit_all(g, xs, st) ==
    IF xs = {} THEN st
    ELSE LET x == CHOOSE x \in xs : TRUE
         IN components_visit_all(g, xs \ {x}, components_visit(g, x, st))

\* the outer loops of get_components over the keys of edges_rev, then edges_fwd
RECURSIVE components_loop(_, _, _, _)
components_loop(g, keys, seenSet, comps) ==
    IF keys = {} THEN [seen |-> seenSet, comps |-> comps]
    ELSE LET node == CHOOSE n \in keys : TRUE
         IN IF node \in seenSet THEN components_loop(g, keys \ {node}, seenSet, comps)
            ELSE LET st == components_visit(g, node, [seen |-> seenSet, nodes |-> {}])
                 IN components_loop(g, keys \ {node}, st.seen, comps \cup {st.nodes})

get_components(g) ==
    LET r == components_loop(g, DOMAIN g.edges_rev, {}, {})
    IN components_loop(g, DOMAIN g.edges_fwd, r.seen, r.comps).comps

----------------------------------------------------------------------------
(* Component.get_roots / Component.get_leaves, one step per call, loop       *)
(* iteration and return of the local visit()                                 *)

GraphNodes == {Node(0, i, Ident_from_label(WireLabel(i)), None) : i \in 1..NumNodes}

\* a get_roots that walks the forward map as get_leaves does
Adjacency_forward_only == "edges_fwd"

\* the adjacency map the running operation walks
Adjacency == IF pc = "get_roots" THEN "edges_rev" ELSE "edges_fwd"

Running == pc \in {"get_roots", "get_leaves"}

\* a visit() that only skips the nodes that are done
visit_is_seen_only_done(node, seenMap) == node \in DOMAIN seenMap /\ seenMap[node] = 1

\* "if node in seen" (lines 129, 151)
visit_is_seen(node, seenMap) == node \in DOMAIN seenMap

\* a visit() that warns on the nodes that are done instead of those in progress
visit_in_progress_swapped(node, seenMap) == seenMap[node] = 1

\* a visit() that warns on every node it meets again
visit_in_progress_or_done(node, seenMap) == seenMap[node] \in {0, 1}

\* "if seen[node] == 0" (lines 130, 152)
visit_in_progress(node, seenMap) == seenMap[node] = 0

\* visit(node) called with the caller's frames in callers: the call up to its
\* first nested call or, when it makes none, its return
visit(node, callers) ==
    IF visit_is_seen(node, seen)
    THEN /\ stderr' = (IF visit_in_progress(node, seen) THEN Append(stderr, node) ELSE stderr)
         /\ stack' = callers
         /\ UNCHANGED <<graph, seen, result, entered>>
    ELSE LET adj == Touch(graph[Adjacency], node)
         IN /\ entered[node] < MaxVisits
            /\ entered' = [entered EXCEPT ![node] = @ + 1]
            /\ graph' = [graph EXCEPT ![Adjacency] = adj]
            /\ IF adj[node] = {}
               THEN /\ result' = result \cup {node}
                    /\ seen' = [n \in DOMAIN seen \cup {node} |-> IF n = node THEN 1 ELSE seen[n]]
                    /\ stack' = callers
               ELSE /\ seen' = [n \in DOMAIN seen \cup {node} |-> IF n = node THEN 0 ELSE seen[n]]
                    /\ stack' = Append(callers, [node |-> node, iter |-> adj[node]])
                    /\ UNCHANGED result
            /\ UNCHANGED stderr

\* no comparison of nodes is under study
CompareIdle ==
    /\ cmp_self = <<>>
    /\ cmp_other = <<>>
    /\ cmp_result = [state |-> "idle"]

\* the state of print_verilog while another operation is modelled
VerilogIdle ==
    /\ natsort_imported = FALSE
    /\ pv_pc = "idle"
    /\ sorted_components = <<>>
    /\ component_index = 0
    /\ mod_sources = {}
    /\ mod_sinks = <<>>
    /\ mod_globals = {}
    /\ modules = <<>>
    /\ globals_left = {}
    /\ stdout = <<>>

\* the state of parse_lpf while another operation is modelled
LpfIdle ==
    /\ lpf_commands = <<>>
    /\ lpf_index = 0
    /\ lpf_pc = "returned"
    /\ sites = <<>>
    /\ lpf_stderr = <<>>

\* the state of gen_config_graph while another operation is modelled
ExpansionIdle ==
    /\ device = <<>>
    /\ cfg_cursor = <<>>
    /\ cfg_size = 0
    /\ arc_graph = ConnectionGraph
    /\ nodes_seen = {}
    /\ bels_todo = {}
    /\ arcs_left = {}
    /\ bels_left = {}
    /\ visit_log = <<>>
    /\ zero_edges = {}

CfgIdle ==
    /\ tiles_by_loc = <<>>
    /\ config_graph = ConnectionGraph
    /\ cfg_pc = "returned"
    /\ cfg_stderr = <<>>
    /\ call = <<>>
    /\ ExpansionIdle

\* no analysis is running
GraphIdle ==
    /\ graph = ConnectionGraph
    /\ components = {}
    /\ pc = "idle"
    /\ nodes = {}
    /\ todo = {}
    /\ stack = <<>>
    /\ seen = EmptyMap
    /\ result = {}
    /\ stderr = <<>>
    /\ entered = [n \in GraphNodes |-> 0]

InitGraph ==
    /\ idents = IdTable
    /\ CompareIdle
    /\ VerilogIdle
    /\ GraphIdle
    /\ LpfIdle
    /\ CfgIdle

\* ConnectionGraph.add_edge called by the owner of the graph
AddEdge ==
    /\ UNCHANGED notGraph
    /\ pc = "idle"
    /\ Cardinality(Edges(graph)) < MaxEdges
    /\ \E source \in GraphNodes, sink \in GraphNodes :
          graph' = ConnectionGraph_add_edge(graph, source, sink)
    /\ components' = {}
    /\ UNCHANGED <<pc, nodes, todo, stack, seen, result, stderr, entered>>

GetComponents ==
    /\ UNCHANGED notGraph
    /\ pc = "idle"
    /\ components' = get_components(graph)
    /\ UNCHANGED <<graph, pc, nodes, todo, stack, seen, result, stderr, entered>>

StartAnalysis(op) ==
    /\ UNCHANGED notGraph
    /\ pc = "idle"
    /\ \E component \in components :
          /\ nodes' = component
          /\ todo' = component
    /\ pc' = op
    /\ stack' = <<>>
    /\ seen' = EmptyMap
    /\ result' = {}
    /\ stderr' = <<>>
    /\ entered' = [n \in GraphNodes |-> 0]
    /\ UNCHANGED <<graph, components>>

GetRoots == StartAnalysis("get_roots")

GetLeaves == StartAnalysis("get_leaves")

\* "for x in self.nodes: visit(x)" (lines 141, 163)
VisitFromLoop ==
    /\ UNCHANGED notGraph
    /\ Running
    /\ stack = <<>>
    /\ \E x \in todo :
          /\ todo' = todo \ {x}
          /\ visit(x, stack)
    /\ UNCHANGED <<components, pc, nodes>>

\* "for x in self.graph.edges_rev[node]: visit(x)" (lines 137, 159)
VisitNested ==
    /\ UNCHANGED notGraph
    /\ Running
    /\ stack # <<>>
    /\ \E x \in stack[Len(stack)].iter :
          visit(x, [stack EXCEPT ![Len(stack)].iter = @ \ {x}])
    /\ UNCHANGED <<components, pc, nodes, todo>>

\* the loop of a frame is exhausted: "seen[node] = 1" and return (lines 139, 161)
VisitReturn ==
    /\ UNCHANGED notGraph
    /\ Running
    /\ stack # <<>>
    /\ stack[Len(stack)].iter = {}
    /\ seen' = [seen EXCEPT ![stack[Len(stack)].node] = 1]
    /\ stack' = SubSeq(stack, 1, Len(stack) - 1)
    /\ UNCHANGED <<graph, components, pc, nodes, todo, result, stderr, entered>>

\* "return roots" / "return leaves"
AnalysisReturn ==
    /\ UNCHANGED notGraph
    /\ Running
    /\ stack = <<>>
    /\ todo = {}
    /\ pc' = (IF pc = "get_roots" THEN "roots_returned" ELSE "leaves_returned")
    /\ UNCHANGED <<graph, components, nodes, todo, stack, seen, result, stderr, entered>>

\* the caller takes the result; the locals of the call are gone
AnalysisDone ==
    /\ UNCHANGED notGraph
    /\ pc \in {"roots_returned", "leaves_returned"}
    /\ pc' = "idle"
    /\ nodes' = {}
    /\ todo' = {}
    /\ stack' = <<>>
    /\ seen' = EmptyMap
    /\ result' = {}
    /\ stderr' = <<>>
    /\ entered' = [n \in GraphNodes |-> 0]
    /\ UNCHANGED <<graph, components>>

NextGraph ==
    \/ AddEdge
    \/ GetComponents
    \/ GetRoots
    \/ GetLeaves
    \/ VisitFromLoop
    \/ VisitNested
    \/ VisitReturn
    \/ AnalysisReturn
    \/ AnalysisDone

SpecGraph == InitGraph /\ [][NextGraph]_vars

----------------------------------------------------------------------------
(* Termination measure of a running get_roots / get_leaves: the work that  *)
(* is left in the outer loop, in the frames and in the nodes not entered.  *)

RECURSIVE SumOver(_, _)
SumOver(S, f) ==
    IF S = {} THEN 0
    ELSE LET x == CHOOSE x \in S : TRUE IN f[x] + SumOver(S \ {x}, f)

WorkLeft ==
    LET adj == graph[Adjacency]
        fresh == nodes \ DOMAIN seen
    IN (IF Running THEN 1 ELSE 0)
       + Cardinality(todo)
       + SumOver(1..Len(stack), [i \in 1..Len(stack) |-> 1 + Cardinality(stack[i].iter)])
       + SumOver(fresh, [n \in fresh |-> 2 + Cardinality(Get(adj, n))])

\* C1: on every graph (self-loops and directed cycles included) get_roots and
\* get_leaves terminate: a running call can always take its next step, every step
\* strictly lowers the work left, each node is entered at most once, and the
\* frames on the stack are exactly nodes in progress (never expanded again).
C1_TraversalTerminates ==
    /\ [](\A n \in GraphNodes : entered[n] <= 1)
    /\ [](\A i \in 1..Len(stack) : seen[stack[i].node] = 0)
    /\ [](Running => ENABLED (VisitFromLoop \/ VisitNested \/ VisitReturn \/ AnalysisReturn))
    /\ [][Running => WorkLeft' < WorkLeft]_vars

\* a traversal of a component with a directed cycle has met an in-progress node
\* again and went on to return
C1_Witness ==
    /\ pc \in {"roots_returned", "leaves_returned"}
    /\ stderr # <<>>
    /\ \E n \in nodes : n \in Get(graph.edges_fwd, n)
    /\ \E n \in nodes, m \in nodes : n # m /\ m \in Get(graph.edges_fwd, n) /\ n \in Get(graph.edges_fwd, m)


----------------------------------------------------------------------------
(* Directed cycles of the graph *)

Successors(S) == UNION {Get(graph.edges_fwd, n) : n \in S}

RECURSIVE Closure(_)
Closure(S) == LET T == S \cup Successors(S) IN IF T = S THEN S ELSE Closure(T)

OnCycle(n) == n \in Closure(Successors({n}))

HasCycle == \E n \in nodes : OnCycle(n)

Returned == pc \in {"roots_returned", "leaves_returned"}

\* the nodes of the analysed component without an edge in the walked direction
Ends == {n \in nodes : Get(graph[IF pc = "roots_returned" THEN "edges_rev" ELSE "edges_fwd"], n) = {}}

\* C2 (as claimed): on a component holding a directed cycle, get_roots and
\* get_leaves each emit at least one cycle warning and return a non-empty set.
C2_CycleWarnsAndNonEmpty ==
    (Returned /\ HasCycle) => (stderr # <<>> /\ result # {})

\* C2 (amended): on a component holding a directed cycle, get_roots and get_leaves
\* each emit at least one cycle warning; the returned set is non-empty exactly
\* when the component has a node without reverse (resp. forward) edges, so it is
\* empty for a component such as X->Y->X in which every node has both.
C2_CycleWarns ==
    (Returned /\ HasCycle) => (stderr # <<>> /\ (result # {} <=> Ends # {}))

\* a cyclic component analysed to the end with a warning and a non-empty result
C2_Witness ==
    /\ Returned
    /\ HasCycle
    /\ stderr # <<>>
    /\ result # {}

----------------------------------------------------------------------------
(* parse_lpf: the loop over the commands of the file. A command is the     *)
(* list of words shlex.split returns for it; the empty list stands for a   *)
(* command that is empty after strip().                                     *)

GoodLocates ==
    {<<"LOCATE", "COMP", "a", "SITE", "P1">>,
     <<"LOCATE", "COMP", "b", "SITE", "P2">>,
     <<"LOCATE", "COMP", "b", "SITE", "P1">>}

LpfCommands ==
    GoodLocates \cup
    {<<"LOCATE">>,
     <<"LOCATE", "COMP", "c", "SITE">>,
     <<"LOCATE", "PORT", "c", "SITE", "P3">>,
     <<"LOCATE", "COMP", "c", "PIN", "P3">>,
     <<"LOCATE", "COMP", "c", "SITE", "P3", "P4">>,
     <<"BLOCK", "ASYNCPATHS">>,
     <<>>}

RECURSIVE SeqsUpTo(_, _)
SeqsUpTo(S, n) ==
    IF n = 0 THEN {<<>>}
    ELSE LET shorter == SeqsUpTo(S, n - 1)
         IN shorter \cup {Append(q, c) : q \in {r \in shorter : Len(r) = n - 1}, c \in S}

\* sites[key] = value
DictSet(d, key, value) == [k \in DOMAIN d \cup {key} |-> IF k = key THEN value ELSE d[k]]

\* "len(words) != 5 or words[1] != "COMP" or words[3] != "SITE"" (line 981);
\* Python's or does not evaluate words[1] and words[3] once the length differs
locate_is_malformed(words) ==
    IF Len(words) # 5 THEN TRUE
    ELSE IF words[2] # "COMP" THEN TRUE
    ELSE words[4] # "SITE"

InitLpf ==
    /\ idents = IdTable
    /\ CompareIdle
    /\ VerilogIdle
    /\ lpf_commands \in SeqsUpTo(LpfCommands, MaxCommands)
    /\ lpf_index = 0
    /\ lpf_pc = "loop"
    /\ sites = <<>>
    /\ lpf_stderr = <<>>
    /\ GraphIdle
    /\ CfgIdle

\* one iteration of "for cmd in commands" on a command that is empty or is no LOCATE
LpfOtherCommand ==
    /\ lpf_pc = "loop"
    /\ lpf_index < Len(lpf_commands)
    /\ LET words == lpf_commands[lpf_index + 1]
       IN IF words = <<>> THEN TRUE ELSE words[1] # "LOCATE"
    /\ lpf_index' = lpf_index + 1
    /\ UNCHANGED <<lpf_commands, lpf_pc, sites, lpf_stderr>>
    /\ UNCHANGED notLpf

\* one iteration of "for cmd in commands" on a LOCATE command (lines 980-983)
LpfLocate ==
    /\ lpf_pc = "loop"
    /\ lpf_index < Len(lpf_commands)
    /\ LET words == lpf_commands[lpf_index + 1]
       IN /\ (IF words = <<>> THEN FALSE ELSE words[1] = "LOCATE")
          /\ lpf_stderr' = (IF locate_is_malformed(words)
                            THEN Append(lpf_stderr, words) ELSE lpf_stderr)
          /\ IF Len(words) >= 5
             THEN \* sites[words[4]] = words[2]
                  /\ sites' = DictSet(sites, words[5], words[3])
                  /\ lpf_index' = lpf_index + 1
                  /\ UNCHANGED lpf_pc
             ELSE \* words[4] raises IndexError, which nothing catches
                  /\ lpf_pc' = "raised"
                  /\ UNCHANGED <<sites, lpf_index>>
    /\ UNCHANGED lpf_commands
    /\ UNCHANGED notLpf

\* "return sites"
LpfReturn ==
    /\ lpf_pc = "loop"
    /\ lpf_index = Len(lpf_commands)
    /\ lpf_pc' = "returned"
    /\ UNCHANGED <<lpf_commands, lpf_index, sites, lpf_stderr>>
    /\ UNCHANGED notLpf

NextLpf ==
    \/ LpfOtherCommand
    \/ LpfLocate
    \/ LpfReturn

SpecLpf == InitLpf /\ [][NextLpf]_vars

\* the site map built from the well-formed LOCATE commands of a list alone
RECURSIVE WellFormedSites(_)
WellFormedSites(cmds) ==
    IF cmds = <<>> THEN <<>>
    ELSE LET before == WellFormedSites(SubSeq(cmds, 1, Len(cmds) - 1))
             words == cmds[Len(cmds)]
         IN IF words \in GoodLocates THEN DictSet(before, words[5], words[3]) ELSE before

\* C5: a LOCATE command that does not match "LOCATE COMP <name> SITE <site>" is
\* logged and skipped: parse_lpf never raises, and the map it has built after any
\* number of commands holds the entries of the well-formed commands and no other.
C5_MalformedLocateSkipped ==
    /\ lpf_pc # "raised"
    /\ sites = WellFormedSites(SubSeq(lpf_commands, 1, lpf_index))

----------------------------------------------------------------------------
(* gen_config_graph: the special-case filtering of add_edge                *)

\* TileData with the fields of tile.info and of cfg the program reads
TileData(type, tile_sites, carcs, cenums) ==
    [tile |-> [info |-> [type |-> type, sites |-> tile_sites]],
     cfg |-> [carcs |-> carcs, cenums |-> cenums, cwords |-> <<>>]]

\* tiles_by_loc[key] on the defaultdict(list): the value, and the dict afterwards
GetList(d, k) == IF k \in DOMAIN d THEN d[k] ELSE <<>>

TouchList(d, k) == [n \in DOMAIN d \cup {k} |-> GetList(d, n)]

\* the first element of a list that satisfies a test, as a for loop with break finds it
FirstIndex(hits) == CHOOSE i \in hits : \A j \in hits : i <= j

get_enum_value(cfg, enum_name) ==
    LET hits == {i \in 1..Len(cfg.cenums) : cfg.cenums[i].name = enum_name}
    IN IF hits = {} THEN PyNone ELSE cfg.cenums[FirstIndex(hits)].value

\* the comparison of line 286 with the modes swapped
data_pin_low_index_kept_in_71(pin_id, is_71_mode) ==
    pin_id \in {"0", "1", "2", "3"} /\ is_71_mode

\* "elif pin_id in "0123" and not is_71_mode" (line 286)
data_pin_low_index_kept(pin_id, is_71_mode) ==
    pin_id \in {"0", "1", "2", "3"} /\ ~is_71_mode

\* what _filter_data_pin leaves: its value, whether it raised, tiles_by_loc and the
\* lines it wrote to sys.stderr
FilterResult(keep, raised, tbl, err) ==
    [keep |-> keep, raised |-> raised, tiles_by_loc |-> tbl, err |-> err]

\* lines 278-281 on the tile found
is_71_mode(tiledata, node, main_mod) ==
    IF startswith(Node_pin_name(node), s_RX)
    THEN get_enum_value(tiledata.cfg, main_mod \o s_IDDRXN_MODE) = s_IDDR71
    ELSE get_enum_value(tiledata.cfg, main_mod \o s_ODDRXN_MODE) = s_ODDR71

\* lines 284-288
filter_data_pin_mode(tbl, pin_id, mode71) ==
    FilterResult((pin_id \in {"4", "5", "6"} /\ mode71) \/ data_pin_low_index_kept(pin_id, mode71),
                 FALSE, tbl, <<>>)

\* the tiles of the list that have a site of type main_mod (line 272)
main_mod_tiles(tiles, main_mod) ==
    {i \in 1..Len(tiles) :
        \E j \in 1..Len(tiles[i].tile.info.sites) : tiles[i].tile.info.sites[j].type = main_mod}

\* lines 270-288: the for loop with its else branch, then the mode test
filter_data_pin_tiles(tbl, node, pin_id, main_mod, tiles, hits) ==
    IF hits = {}
    THEN FilterResult(TRUE, FALSE, tbl, <<"error: could not locate IOLOGIC enums">>)
    ELSE filter_data_pin_mode(tbl, pin_id, is_71_mode(tiles[FirstIndex(hits)], node, main_mod))

\* lines 259-288 with the key of tiles_by_loc and the main module chosen
filter_data_pin_at(tbl, node, pin_id, key, main_mod) ==
    filter_data_pin_tiles(TouchList(tbl, key), node, pin_id, main_mod, GetList(tbl, key),
                          main_mod_tiles(GetList(tbl, key), main_mod))

\* lines 251-288 with bel_id and pin_id read
filter_data_pin_ids(tbl, node, bel_id, pin_id) ==
    IF bel_id \notin {"A", "B", "C", "D"} \/ pin_id \notin {"0", "1", "2", "3", "4", "5", "6"}
    THEN \* AssertionError
         FilterResult(FALSE, TRUE, tbl, <<>>)
    ELSE IF bel_id \in {"A", "C"} /\ pin_id \in {"0", "1", "2", "3"}
    THEN FilterResult(TRUE, FALSE, tbl, <<>>)
    ELSE IF bel_id \in {"A", "B"}
    THEN filter_data_pin_at(tbl, node, pin_id, <<node.x, node.y>>, s_IOLOGICA)
    ELSE filter_data_pin_at(tbl, node, pin_id, <<node.x, node.y + 2>>, s_IOLOGICC)

\* _filter_data_pin(node): [keep, raised, tiles_by_loc, err]
filter_data_pin(tbl, node) ==
    filter_data_pin_ids(tbl, node, last(Node_mod_name(node)), last(Node_pin_name(node)))

\* re.match(r"^F[5X][ABCD]_SLICE$", name)
match_F5X_SLICE(name) ==
    /\ Len(name) = 9
    /\ name[1] = "F"
    /\ name[2] \in {"5", "X"}
    /\ name[3] \in {"A", "B", "C", "D"}
    /\ SubSeq(name, 4, 9) = s_SLICE_suffix

\* re.match(r"^F\d$", name)
match_F_digit(name) ==
    /\ Len(name) = 2
    /\ name[1] = "F"
    /\ name[2] \in {Digits[i] : i \in 1..10}

\* the tiles the CCU2 test of add_edge reads: tiles_by_loc[sourcenode.x, sinknode.y] (line 299)
add_edge_tile_key(sourcenode, sinknode) == <<sourcenode.x, sinknode.y>>

\* a test of the wire name where the pin name is meant
source_is_rx_data_pin_by_name(sourcenode) == startswith(Node_name(sourcenode), s_RXDATA)

\* "sourcenode.pin_name.startswith("RXDATA")" (line 305)
source_is_rx_data_pin(sourcenode) == startswith(Node_pin_name(sourcenode), s_RXDATA)

\* what add_edge leaves: the graph, tiles_by_loc, the lines written to sys.stderr, and
\* whether it raised
AddEdgeResult(g, tbl, err, raised) ==
    [graph |-> g, tiles_by_loc |-> tbl, err |-> err, raised |-> raised]

\* the for loop of lines 299-304 finds a tile to break on
ccu2_tile_found(tiles, enum_name) ==
    \E i \in 1..Len(tiles) :
        /\ startswith(tiles[i].tile.info.type, s_PLC2)
        /\ get_enum_value(tiles[i].cfg, enum_name) = s_CCU2

\* lines 298-304 and 312
add_edge_shared_bit(g, tbl, sourcenode, sinknode, key, enum_name) ==
    AddEdgeResult(
        ConnectionGraph_add_edge(
            g,
            IF ccu2_tile_found(GetList(tbl, key), enum_name)
            THEN Node(sourcenode.y, sourcenode.x,
                      Ident_from_label(Node_name(sinknode) \o s_SLICE_suffix), None)
            ELSE sourcenode,
            sinknode),
        TouchList(tbl, key), <<>>, FALSE)

\* line 312, reached unless one of the two filters said no; r1 and r2 are what the tests
\* of lines 305 and 308 left
add_edge_filtered(g, sourcenode, sinknode, r1, r2) ==
    AddEdgeResult(IF r2.keep THEN ConnectionGraph_add_edge(g, sourcenode, sinknode) ELSE g,
                  r2.tiles_by_loc, r1.err \o r2.err, r2.raised)

\* lines 308-312; r1 is what the test of line 305 left
add_edge_sink(g, sourcenode, sinknode, r1) ==
    add_edge_filtered(g, sourcenode, sinknode, r1,
                      IF r1.keep /\ startswith(Node_pin_name(sinknode), s_TXDATA)
                      THEN filter_data_pin(r1.tiles_by_loc, sinknode)
                      ELSE FilterResult(r1.keep, r1.raised, r1.tiles_by_loc, <<>>))

\* add_edge(graph, sourcenode, sinknode) of gen_config_graph:
\* [graph, tiles_by_loc, err, raised] after the call
add_edge(g, tbl, sourcenode, sinknode) ==
    IF match_F5X_SLICE(Node_name(sourcenode)) /\ match_F_digit(Node_name(sinknode))
    THEN add_edge_shared_bit(g, tbl, sourcenode, sinknode, add_edge_tile_key(sourcenode, sinknode),
                             s_SLICE \o <<Node_name(sourcenode)[3]>> \o s_dot_MODE)
    ELSE add_edge_sink(g, sourcenode, sinknode,
                       IF source_is_rx_data_pin(sourcenode) THEN filter_data_pin(tbl, sourcenode)
                       ELSE FilterResult(TRUE, FALSE, tbl, <<>>))

----------------------------------------------------------------------------
(* One call of add_edge on a node pair and a set of tiles drawn from the   *)
(* cases the filter distinguishes                                          *)

WireNode(y, x, label) == Node(y, x, Ident_from_label(label), None)

PinNode(y, x, bel, pin) == Node(y, x, Ident_from_label(bel), Ident_from_label(pin))

\* the data pins of the four I/O logic blocks at x = 0, y = 1
DataPinNodes(family) ==
    {PinNode(1, 0, IoLogicLabels[b], family \o <<Digit(i)>>) : b \in 1..4, i \in 0..6}

PlainWire == WireNode(1, 0, WireLabel(1))

FilterCalls ==
    {[sourcenode |-> n, sinknode |-> PlainWire] : n \in DataPinNodes(s_RXDATA) \cup DataPinNodes(s_TXDATA)}
    \cup {[sourcenode |-> PlainWire, sinknode |-> n] : n \in DataPinNodes(s_RXDATA) \cup DataPinNodes(s_TXDATA)}
    \cup {[sourcenode |-> PinNode(1, 0, IoLogicLabels[1], s_RXDATA \o <<Digit(i)>>),
           sinknode |-> PinNode(1, 0, IoLogicLabels[b], s_TXDATA \o <<Digit(j)>>)] :
             i \in {0, 5}, j \in {0, 5}, b \in {1, 2}}
    \cup {[sourcenode |-> WireNode(1, 1, src), sinknode |-> WireNode(y, 1, snk)] :
             src \in {SliceLabels[1], SliceLabels[2], WireLabel(1)},
             snk \in {SliceLabels[3], SliceLabels[4], WireLabel(2)},
             y \in {1, 2}}

\* an I/O tile holding the mode enumerations of IOLOGICA (at y = 1) or IOLOGICC (at y = 3)
IoTile(type, main_mod, rx71, tx71) ==
    TileData(type, <<[type |-> s_PIOA], [type |-> main_mod]>>, <<>>,
             <<[name |-> main_mod \o s_IDDRXN_MODE, value |-> IF rx71 THEN s_IDDR71 ELSE s_IDDRX1],
               [name |-> main_mod \o s_ODDRXN_MODE, value |-> IF tx71 THEN s_ODDR71 ELSE s_IDDRX1]>>)

IoTileOptions(type, main_mod) ==
    {<<>>} \cup {<<IoTile(type, main_mod, rx71, tx71)>> : rx71 \in BOOLEAN, tx71 \in BOOLEAN}

\* a tile at x = 1 with the mode enumeration of slice A
SliceTileOptions ==
    {<<>>,
     <<TileData(s_PLC2, <<>>, <<>>, <<>>)>>,
     <<TileData(s_PLC2, <<>>, <<>>, <<[name |-> s_SLICE \o <<"A">> \o s_dot_MODE, value |-> s_CCU2]>>)>>,
     <<TileData(s_PLC2, <<>>, <<>>, <<[name |-> s_SLICE \o <<"A">> \o s_dot_MODE, value |-> s_LOGIC]>>)>>,
     <<TileData(s_PICL0, <<>>, <<>>, <<[name |-> s_SLICE \o <<"A">> \o s_dot_MODE, value |-> s_CCU2]>>)>>}

\* a dict with the given entries, without the keys whose list is empty
DictOf(entries) ==
    LET keys == {e[1] : e \in {e \in entries : e[2] # <<>>}}
    IN [k \in keys |-> (CHOOSE e \in entries : e[1] = k)[2]]

FilterTiles ==
    {DictOf({<<<<0, 1>>, ioA>>, <<<<0, 3>>, ioC>>, <<<<1, 1>>, plcP>>, <<<<1, 2>>, plcQ>>}) :
        ioA \in IoTileOptions(s_PICL0, s_IOLOGICA),
        ioC \in IoTileOptions(s_PICL2, s_IOLOGICC),
        plcP \in SliceTileOptions,
        plcQ \in {<<>>, <<TileData(s_PLC2, <<>>, <<>>, <<[name |-> s_SLICE \o <<"A">> \o s_dot_MODE, value |-> s_CCU2]>>)>>}}

InitFilter ==
    /\ idents = IdTable
    /\ CompareIdle
    /\ VerilogIdle
    /\ call \in FilterCalls
    /\ tiles_by_loc \in FilterTiles
    /\ config_graph = ConnectionGraph
    /\ cfg_pc = "call"
    /\ cfg_stderr = <<>>
    /\ ExpansionIdle
    /\ GraphIdle
    /\ LpfIdle

\* what a call add_edge(config_graph, ...) leaves in config_graph, tiles_by_loc and on
\* sys.stderr, and where the caller goes on unless the call raised
ConfigGraphAssign(r, next_pc) ==
    /\ config_graph' = r.graph
    /\ tiles_by_loc' = r.tiles_by_loc
    /\ cfg_stderr' = cfg_stderr \o r.err
    /\ cfg_pc' = IF r.raised THEN "raised" ELSE next_pc

\* add_edge(config_graph, sourcenode, sinknode)
FilterAddEdge ==
    /\ cfg_pc = "call"
    /\ ConfigGraphAssign(add_edge(config_graph, tiles_by_loc, call.sourcenode, call.sinknode),
                         "returned")
    /\ UNCHANGED <<call, device, cfg_cursor, cfg_size, arc_graph, nodes_seen, bels_todo,
                   arcs_left, bels_left, visit_log, zero_edges>>
    /\ UNCHANGED notCfg

NextFilter == FilterAddEdge

SpecFilter == InitFilter /\ [][NextFilter]_vars

----------------------------------------------------------------------------
(* The gearing rule and the shared-bit override as the specification       *)
(* states them                                                             *)

IsDataPin(node) ==
    startswith(Node_pin_name(node), s_RXDATA) \/ startswith(Node_pin_name(node), s_TXDATA)

SubUnit(node) == last(Node_name(node))

PinIndex(node) == last(Node_pin_name(node))

\* the tiles that hold the mode enumeration of the node's sub-unit: those with the
\* site of sub-unit A at the node's location for A and B, those with the site of
\* sub-unit C two rows below for C and D
ModeTiles(node) ==
    LET here == SubUnit(node) \in {"A", "B"}
        tiles == GetList(tiles_by_loc, IF here THEN <<node.x, node.y>> ELSE <<node.x, node.y + 2>>)
        site == IF here THEN s_IOLOGICA ELSE s_IOLOGICC
    IN {i \in 1..Len(tiles) : \E j \in 1..Len(tiles[i].tile.info.sites) :
                                  tiles[i].tile.info.sites[j].type = site}

ModeTileFound(node) == ModeTiles(node) # {}

\* the configured mode of the node's sub-unit is the 7:1 gearing mode
Is71Mode(node) ==
    LET here == SubUnit(node) \in {"A", "B"}
        tiles == GetList(tiles_by_loc, IF here THEN <<node.x, node.y>> ELSE <<node.x, node.y + 2>>)
        unit == IF here THEN s_IOLOGICA ELSE s_IOLOGICC
        cenums == tiles[FirstIndex(ModeTiles(node))].cfg.cenums
    IN IF startswith(Node_pin_name(node), s_RXDATA)
       THEN \E i \in 1..Len(cenums) :
               cenums[i].name = unit \o s_IDDRXN_MODE /\ cenums[i].value = s_IDDR71
       ELSE \E i \in 1..Len(cenums) :
               cenums[i].name = unit \o s_ODDRXN_MODE /\ cenums[i].value = s_ODDR71

\* the validity table of the data pins
ValidDataPin(node) ==
    \/ SubUnit(node) \in {"A", "C"} /\ PinIndex(node) \in {"0", "1", "2", "3"}
    \/ PinIndex(node) \in {"4", "5", "6"} /\ Is71Mode(node)
    \/ SubUnit(node) \in {"B", "D"} /\ PinIndex(node) \in {"0", "1", "2", "3"} /\ ~Is71Mode(node)

CallEdge == <<call.sourcenode, call.sinknode>>

CallMatchesSharedBit ==
    match_F5X_SLICE(Node_name(call.sourcenode)) /\ match_F_digit(Node_name(call.sinknode))

\* C6 (as claimed): whenever the source pin or the sink pin of an edge passed to
\* the filtered add_edge is an RXDATA or TXDATA pin whose index is invalid for the
\* configured gearing mode, the edge is not inserted.
C6_EitherEndpointFiltered ==
    (cfg_pc = "returned" /\ ~CallMatchesSharedBit) =>
        \A n \in {call.sourcenode, call.sinknode} :
            (IsDataPin(n) /\ ModeTileFound(n) /\ ~ValidDataPin(n))
                => CallEdge \notin Edges(config_graph)

\* C6 (amended): the gearing rule is applied to a source pin whose label starts
\* with RXDATA and to a sink pin whose label starts with TXDATA: when the edge does
\* not match the shared-bit pattern, the tile holding the pin's mode enumeration is
\* found and the pin's index is invalid for the configured gearing mode, the edge
\* is not inserted.
C6_RxSourceTxSinkFiltered ==
    (cfg_pc = "returned" /\ ~CallMatchesSharedBit) =>
        /\ (startswith(Node_pin_name(call.sourcenode), s_RXDATA)
              /\ ModeTileFound(call.sourcenode) /\ ~ValidDataPin(call.sourcenode))
                => Edges(config_graph) = {}
        /\ (startswith(Node_pin_name(call.sinknode), s_TXDATA)
              /\ ModeTileFound(call.sinknode) /\ ~ValidDataPin(call.sinknode))
                => Edges(config_graph) = {}

\* an edge from an RXDATA pin of sub-unit B under 7:1 gearing was passed and dropped
C6_Witness ==
    /\ cfg_pc = "returned"
    /\ startswith(Node_pin_name(call.sourcenode), s_RXDATA)
    /\ SubUnit(call.sourcenode) = "B"
    /\ ModeTileFound(call.sourcenode)
    /\ Is71Mode(call.sourcenode)
    /\ Edges(config_graph) = {}

\* the data pins of the call the gearing rule is applied to
FilteredPins ==
    {n \in {call.sourcenode} : startswith(Node_pin_name(n), s_RXDATA)}
    \cup {n \in {call.sinknode} : startswith(Node_pin_name(n), s_TXDATA)}

\* C7: validity table of the gearing rule, given that the tile holding the mode
\* enumeration is found: for an edge from an RXDATA pin or into a TXDATA pin, the
\* edge is in the graph after filtering exactly when every such pin is valid:
\* index 0-3 on sub-units A/C always, index 4-6 only in 7:1 mode, index 0-3 on
\* sub-units B/D only when the mode is not 7:1. In particular index 5 on sub-unit
\* A under a mode that is not 7:1 leaves no edge.
C7_ValidityTable ==
    (/\ cfg_pc = "returned"
     /\ ~CallMatchesSharedBit
     /\ FilteredPins # {}
     /\ \A n \in FilteredPins : ModeTileFound(n))
        => (CallEdge \in Edges(config_graph) <=> \A n \in FilteredPins : ValidDataPin(n))

\* pin index 5 of sub-unit A under a mode that is not 7:1: the edge is absent
C7_Witness ==
    /\ cfg_pc = "returned"
    /\ FilteredPins = {call.sourcenode}
    /\ SubUnit(call.sourcenode) = "A"
    /\ PinIndex(call.sourcenode) = "5"
    /\ ModeTileFound(call.sourcenode)
    /\ ~Is71Mode(call.sourcenode)
    /\ Edges(config_graph) = {}

\* the logic tile at the source node's location has mode CCU2 for the slice the
\* source's letter names
SourceSliceIsCCU2 ==
    LET tiles == GetList(tiles_by_loc, <<call.sourcenode.x, call.sourcenode.y>>)
        enum_name == s_SLICE \o <<Node_name(call.sourcenode)[3]>> \o s_dot_MODE
    IN \E i \in 1..Len(tiles) :
          /\ startswith(tiles[i].tile.info.type, s_PLC2)
          /\ \E j \in 1..Len(tiles[i].cfg.cenums) :
                tiles[i].cfg.cenums[j] = [name |-> enum_name, value |-> s_CCU2]

\* C8: for an edge F[5X]<letter>_SLICE -> F<n>, if the logic tile at the source
\* node's location has mode CCU2 for that slice, the edge inserted is F<n>_SLICE ->
\* F<n> at the source's location and the original edge is not inserted; otherwise
\* the edge is inserted unchanged.
C8_SharedBitOverride ==
    (cfg_pc = "returned" /\ CallMatchesSharedBit) =>
        Edges(config_graph) =
            IF SourceSliceIsCCU2
            THEN {<<WireNode(call.sourcenode.y, call.sourcenode.x,
                             Node_name(call.sinknode) \o s_SLICE_suffix), call.sinknode>>}
            ELSE {CallEdge}

----------------------------------------------------------------------------
(* The device gen_config_graph runs on: the configuration read from the    *)
(* bitstream and the routing and bit databases of the chip                 *)

\* what a device of the family may have on top of the configurable arcs: configured arcs
\* and enums of its tiles, zero-bit arcs of the bit database, fixed arcs and bels of the
\* routing database, and a spine driver that sits in the tap column
DevicePool ==
    <<[kind |-> "carc", arc |-> DbArc(loc_P, W1, s_arrow, W2)],
      [kind |-> "carc", arc |-> UnroutedArc],
      [kind |-> "carc", arc |-> DbArc(loc_P, W3, s_arrow, W2)],
      [kind |-> "carc", arc |-> DbArc(loc_P, W2, s_arrow, W1)],
      [kind |-> "carc", arc |-> DbArc(loc_P, s_F5A_SLICE, s_arrow, s_F1)],
      [kind |-> "carc", arc |-> DbArc(loc_P, s_G_HPBX0100, s_arrow, W3)],
      [kind |-> "carc", arc |-> DbArc(loc_T, s_G_VPTX0100, s_arrow, s_R_HPBX0100)],
      [kind |-> "carc", arc |-> DbArc(loc_S, s_G_HPRX0100, s_arrow, s_G_VPTX0100)],
      [kind |-> "fixed", arc |-> DbArc(loc_P, W2, s_fixed, W5)],
      [kind |-> "fixed", arc |-> DbArc(loc_P, W5, s_fixed, W2)],
      [kind |-> "fixed", arc |-> DbArc(loc_P, W6, s_fixed, W7)],
      [kind |-> "cenum", loc |-> loc_P, name |-> s_SLICEA \o s_dot_MODE, value |-> s_CCU2],
      [kind |-> "zero", type |-> s_PLC2, sink |-> W1, source |-> W4],
      [kind |-> "zero", type |-> s_PLC2, sink |-> W4, source |-> W1],
      [kind |-> "zero", type |-> s_PLC2, sink |-> W6, source |-> W9],
      [kind |-> "bels"],
      [kind |-> "spine"]>>

\* the largest number of pool items one device has
MaxItems == 4

Devices == {items \in SUBSET (1..Len(DevicePool)) : Cardinality(items) <= MaxItems}

RECURSIVE Ascending(_)
\* the numbers of a set in increasing order
Ascending(S) ==
    IF S = {} THEN <<>>
    ELSE LET m == CHOOSE m \in S : \A k \in S : m <= k
         IN <<m>> \o Ascending(S \ {m})

\* the items of one kind among the chosen ones, in pool order
Chosen(items, kind) ==
    SelectSeq(DevicePool,
              LAMBDA item : item.kind = kind /\ \E i \in items : DevicePool[i] = item)

\* chip.tiles: one tile per location
ChipTiles ==
    <<[loc |-> loc_S, type |-> s_CMUX], [loc |-> loc_T, type |-> s_TAP_DRIVE],
      [loc |-> loc_P, type |-> s_PLC2]>>

\* apply an operator to every element of a list
Map(Op(_), list) == [k \in 1..Len(list) |-> Op(list[k])]

\* tile_cram_to_config: the configured arcs and enums of the tile at a location
tile_cram_to_config(items, loc) ==
    [carcs |-> Map(LAMBDA item : [source |-> item.arc.source, sink |-> item.arc.sink],
                   SelectSeq(Chosen(items, "carc"), LAMBDA item : item.arc.loc = loc)),
     cenums |-> Map(LAMBDA item : [name |-> item.name, value |-> item.value],
                    SelectSeq(Chosen(items, "cenum"), LAMBDA item : item.loc = loc))]

make_tiles_by_loc(items) ==
    [key \in {<<ChipTiles[i].loc.x, ChipTiles[i].loc.y>> : i \in 1..Len(ChipTiles)} |->
        LET at == SelectSeq(ChipTiles, LAMBDA t : <<t.loc.x, t.loc.y>> = key)
        IN [k \in 1..Len(at) |->
               TileData(at[k].type, <<>>, tile_cram_to_config(items, at[k].loc).carcs,
                        tile_cram_to_config(items, at[k].loc).cenums)]]

\* the keys of tiles_by_loc in the order make_tiles_by_loc inserted them
tiles_by_loc_keys == [i \in 1..Len(ChipTiles) |-> <<ChipTiles[i].loc.x, ChipTiles[i].loc.y>>]

RoutingId(loc, id) == [loc |-> loc, id |-> id]

\* RoutingArc {id, source, sink} of the arc the database stores in the tile at arc.loc
RoutingArc(arc) ==
    [id |-> rgraph_ident(ArcName(arc)), tile |-> arc.loc,
     source |-> RoutingId(arc.loc, rgraph_ident(arc.source)),
     sink |-> RoutingId(arc.loc, rgraph_ident(arc.sink))]

\* a slice with an input pin on W2 and an output pin on W6, and a second slice with an
\* input pin on W6
SliceBelPins ==
    <<[wire |-> RoutingId(loc_P, rgraph_ident(W2)), dir |-> "down",
       bel |-> RoutingId(loc_P, rgraph_ident(s_SLICEA)), pin |-> rgraph_ident(s_A0)],
      [wire |-> RoutingId(loc_P, rgraph_ident(W6)), dir |-> "up",
       bel |-> RoutingId(loc_P, rgraph_ident(s_SLICEA)), pin |-> rgraph_ident(s_Q0)],
      [wire |-> RoutingId(loc_P, rgraph_ident(W6)), dir |-> "down",
       bel |-> RoutingId(loc_P, rgraph_ident(s_SLICEB)), pin |-> rgraph_ident(s_M0)]>>

\* the device that has the chosen items: the items, the arcs and the bel pins of its
\* routing graph, the zero-bit arcs of its bit database and its spine driver
Device(items) ==
    [items |-> items,
     arcs |-> [i \in 1..Len(ConfigurableArcs) |-> RoutingArc(ConfigurableArcs[i])]
                  \o [i \in 1..Len(Chosen(items, "fixed")) |-> RoutingArc(Chosen(items, "fixed")[i].arc)],
     bels |-> IF Len(Chosen(items, "bels")) = 0 THEN <<>> ELSE SliceBelPins,
     zero |-> Chosen(items, "zero"),
     spine |-> IF Len(Chosen(items, "spine")) = 0 THEN [first |-> 0, second |-> 1]
               ELSE [first |-> 1, second |-> 0]]

\* rgraph.tiles[loc].arcs: "id in arcs" and arcs[id]
rtile_has_arc(loc, id) ==
    \E i \in 1..Len(device.arcs) : device.arcs[i].tile = loc /\ device.arcs[i].id = id

rtile_arcs(loc, id) ==
    device.arcs[CHOOSE i \in 1..Len(device.arcs) : device.arcs[i].tile = loc /\ device.arcs[i].id = id]

\* the ids of rgraph.tiles[loc].wires
rtile_wires(loc) ==
    {device.arcs[i].source.id : i \in {j \in 1..Len(device.arcs) : device.arcs[j].source.loc = loc}}
        \cup {device.arcs[i].sink.id : i \in {j \in 1..Len(device.arcs) : device.arcs[j].sink.loc = loc}}
        \cup {device.bels[i].wire.id : i \in {j \in 1..Len(device.bels) : device.bels[j].wire.loc = loc}}

\* RoutingId of an arc, and (RoutingId, pin) of a bel pin
ArcRoutingId(a) == RoutingId(a.tile, a.id)

BelPin(b) == <<b.bel, b.pin>>

\* rgraph.tiles[loc].wires[id]: RoutingWire {id, uphill, downhill, belsUphill, belsDownhill}
rtile_wire(loc, id) ==
    [id |-> id,
     uphill |-> Map(ArcRoutingId, SelectSeq(device.arcs, LAMBDA a : a.sink = RoutingId(loc, id))),
     downhill |-> Map(ArcRoutingId, SelectSeq(device.arcs, LAMBDA a : a.source = RoutingId(loc, id))),
     belsUphill |->
         Map(BelPin, SelectSeq(device.bels, LAMBDA b : b.wire = RoutingId(loc, id) /\ b.dir = "up")),
     belsDownhill |->
         Map(BelPin, SelectSeq(device.bels, LAMBDA b : b.wire = RoutingId(loc, id) /\ b.dir = "down"))]

\* get_zero_bit_arcs(chip, tiletype).get(sink, []): the names of the sources of the sink
\* whose arc has no bits
get_zero_bit_arcs(tiletype, sink) ==
    Map(LAMBDA z : z.source, SelectSeq(device.zero, LAMBDA z : z.type = tiletype /\ z.sink = sink))

\* chip.global_data: the tap column is column 0, there is one quadrant, and the spine
\* driver sits at row 0 of column 1 or, in some devices, in the tap tile of row 1
get_tap_driver(row, col) == [col |-> 0, dir |-> IF col > 0 THEN "RIGHT" ELSE "LEFT"]

get_quadrant(row, col) == s_UL

get_spine_driver(quadrant, col) == device.spine

----------------------------------------------------------------------------
(* gen_config_graph: the config arc loop, the expansion of every configured *)
(* arc by visit_node, and the pass over the recorded bels                   *)

bel_to_node(pos) == Node(pos[1].loc.y, pos[1].loc.x, Ident_from_id(pos[1].id), Ident_from_id(pos[2]))

\* a wire_to_node that takes the column for the row
wire_to_node_transposed(rid) == Node(rid.loc.x, rid.loc.y, Ident_from_id(rid.id), None)

wire_to_node(rid) == Node(rid.loc.y, rid.loc.x, Ident_from_id(rid.id), None)

Node_loc(node) == Location(node.x, node.y)

RECURSIVE replace(_, _, _)
\* s.replace(old, new) for a non-empty old
replace(s, old, new) ==
    IF Len(s) < Len(old) THEN s
    ELSE IF startswith(s, old) THEN new \o replace(SubSeq(s, Len(old) + 1, Len(s)), old, new)
    ELSE <<s[1]>> \o replace(Tail(s), old, new)

DigitValue(c) == (CHOOSE i \in 1..10 : Digits[i] = c) - 1

\* int(s) accepts s (decimal digits only are told apart here)
int_accepts(s) == Len(s) > 0 /\ \A i \in 1..Len(s) : \E d \in 1..10 : Digits[d] = s[i]

RECURSIVE int(_)
int(s) == IF Len(s) = 0 THEN 0 ELSE 10 * int(SubSeq(s, 1, Len(s) - 1)) + DigitValue(last(s))

\* what add_edge and visit_node read and write while an iteration of a loop runs
Locals ==
    [arc_graph |-> arc_graph, nodes_seen |-> nodes_seen, bels_todo |-> bels_todo,
     tiles_by_loc |-> tiles_by_loc, err |-> cfg_stderr, raised |-> FALSE,
     log |-> visit_log, zero |-> zero_edges]

\* what a call add_edge(arc_graph, ...) leaves in the locals
ArcGraphAssign(st, r) ==
    [st EXCEPT !.arc_graph = r.graph, !.tiles_by_loc = r.tiles_by_loc,
               !.err = @ \o r.err, !.raised = r.raised]

\* add_edge(arc_graph, sourcenode, sinknode), unless an exception is on its way up
arc_graph_add_edge(st, sourcenode, sinknode) ==
    IF st.raised THEN st
    ELSE ArcGraphAssign(st, add_edge(st.arc_graph, st.tiles_by_loc, sourcenode, sinknode))

\* bels_todo.add
bels_todo_add(st, node) == [st EXCEPT !.bels_todo = @ \cup {node}]

\* a callback of the pass over the recorded bels that records the bels it meets
bel_func_none_records(st, node) == [st EXCEPT !.bels_todo = @ \cup {node}]

\* "lambda node: None" (lines 432 and 436)
bel_func_none(st, node) == st

\* bel_func(node): bels_todo.add in the loop over the configured arcs, a no-op afterwards
bel_func(record, st, node) ==
    IF st.raised THEN st
    ELSE IF record THEN bels_todo_add(st, node) ELSE bel_func_none(st, node)

\* a test of the outgoing edges where the incoming ones are meant
not_configured_as_source(node) == node \notin DOMAIN config_graph.edges_fwd

\* "node not in config_graph.edges_rev" (line 346)
not_configured(node) == node \notin DOMAIN config_graph.edges_rev

RECURSIVE visit_node(_, _, _)
RECURSIVE visit_sources(_, _, _, _, _)
RECURSIVE visit_zero_bit(_, _, _, _, _)
RECURSIVE visit_bels(_, _, _, _, _, _)
RECURSIVE visit_routes(_, _, _, _, _)

\* "for source in sources" (lines 353-357)
visit_sources(st, node, record, sources, i) ==
    IF i > Len(sources) \/ st.raised THEN st
    ELSE LET sourcenode == Node(node.y, node.x, Ident_from_label(sources[i]), None)
             st1 == arc_graph_add_edge([st EXCEPT !.zero = @ \cup {<<sourcenode, node>>}],
                                       sourcenode, node)
         IN visit_sources(visit_node(st1, sourcenode, record), node, record, sources, i + 1)

\* "for tiledata in tiles_by_loc[node.x, node.y]" (lines 348-357)
visit_zero_bit(st, node, record, tiles, i) ==
    IF i > Len(tiles) \/ st.raised THEN st
    ELSE visit_zero_bit(visit_sources(st, node, record,
                                      get_zero_bit_arcs(tiles[i].tile.info.type, node.id.label), 1),
                        node, record, tiles, i + 1)

\* "for bel in rwire.belsUphill" and "for bel in rwire.belsDownhill" (lines 360-365)
visit_bels(st, node, record, bels, up, i) ==
    IF i > Len(bels) \/ st.raised THEN st
    ELSE LET st1 == IF up THEN arc_graph_add_edge(st, bel_to_node(bels[i]), node)
                    ELSE arc_graph_add_edge(st, node, bel_to_node(bels[i]))
         IN visit_bels(bel_func(record, st1, wire_to_node(bels[i][1])), node, record, bels, up, i + 1)

\* "for routes in [rwire.uphill, rwire.downhill]: for rarcrid in routes" (lines 366-376)
visit_routes(st, node, record, routes, i) ==
    IF i > Len(routes) \/ st.raised THEN st
    ELSE IF ~contains(rgraph_to_str(routes[i].id), s_fixed)
    THEN visit_routes(st, node, record, routes, i + 1)
    ELSE LET rarc == rtile_arcs(routes[i].loc, routes[i].id)
             sourcenode == wire_to_node(rarc.source)
             sinknode == wire_to_node(rarc.sink)
             st1 == arc_graph_add_edge(st, sourcenode, sinknode)
             st2 == visit_node(st1, sourcenode, record)
             st3 == visit_node(st2, sinknode, record)
         IN visit_routes(st3, node, record, routes, i + 1)

\* the global clock connections (lines 378-410)
visit_globals(st, node, record) ==
    IF st.raised THEN st
    ELSE IF startswith(Node_name(node), s_G_HPBX)
    THEN LET tap == get_tap_driver(node.y, node.x)
             tap_name == IF tap.dir = "LEFT" THEN replace(Node_name(node), s_G_HPBX, s_L_HPBX)
                         ELSE replace(Node_name(node), s_G_HPBX, s_R_HPBX)
             tap_node == Node(node.y, tap.col, Ident_from_label(tap_name), None)
         IN visit_node(arc_graph_add_edge(st, tap_node, node), tap_node, record)
    ELSE IF startswith(Node_name(node), s_G_VPTX)
    THEN LET tap == get_tap_driver(node.y, node.x)
             quadrant == get_quadrant(node.y, node.x)
             spine == get_spine_driver(quadrant, node.x)
             spine_node == Node(spine.first, spine.second, node.id, None)
         IN IF tap.col = node.x
            THEN visit_node(arc_graph_add_edge(st, spine_node, node), spine_node, record)
            ELSE st
    ELSE IF startswith(Node_name(node), s_G_HPRX)
    THEN LET quadrant == get_quadrant(node.y, node.x)
             digits == SubSeq(Node_name(node), 7, Len(Node_name(node)) - 2)
             global_id == Ident_from_label(s_G_ \o quadrant \o s_PCLK \o str(int(digits)))
             global_node == Node(0, 0, global_id, None)
         IN IF ~endswith(Node_name(node), s_00) \/ ~int_accepts(digits)
            THEN \* AssertionError, ValueError
                 [st EXCEPT !.raised = TRUE]
            ELSE visit_node(arc_graph_add_edge(st, global_node, node), global_node, record)
    ELSE st

\* a visit_node that takes the first node it has seen for new once more
visit_node_again(st, node, record) ==
    IF st.raised \/ (node \in st.nodes_seen /\ Len(st.log) # 1) THEN st
    ELSE LET st0 == [st EXCEPT !.nodes_seen = @ \cup {node}, !.log = Append(@, node)]
             key == <<node.x, node.y>>
         IN IF node.id.id \notin rtile_wires(Node_loc(node))
            THEN \* KeyError
                 [st0 EXCEPT !.err = Append(@, "Error: failed to find node")]
            ELSE LET rwire == rtile_wire(Node_loc(node), node.id.id)
                     st1 == IF not_configured(node)
                            THEN visit_zero_bit([st0 EXCEPT !.tiles_by_loc = TouchList(@, key)],
                                                node, record, GetList(st0.tiles_by_loc, key), 1)
                            ELSE st0
                     st2 == visit_bels(st1, node, record, rwire.belsUphill, TRUE, 1)
                     st3 == visit_bels(st2, node, record, rwire.belsDownhill, FALSE, 1)
                     st4 == visit_routes(st3, node, record, rwire.uphill \o rwire.downhill, 1)
                 IN visit_globals(st4, node, record)

\* visit_node(node, bel_func) (lines 330-410), on the locals st
visit_node(st, node, record) ==
    IF st.raised \/ node \in st.nodes_seen THEN st
    ELSE LET st0 == [st EXCEPT !.nodes_seen = @ \cup {node}, !.log = Append(@, node)]
             key == <<node.x, node.y>>
         IN IF node.id.id \notin rtile_wires(Node_loc(node))
            THEN \* KeyError
                 [st0 EXCEPT !.err = Append(@, "Error: failed to find node")]
            ELSE LET rwire == rtile_wire(Node_loc(node), node.id.id)
                     st1 == IF not_configured(node)
                            THEN visit_zero_bit([st0 EXCEPT !.tiles_by_loc = TouchList(@, key)],
                                                node, record, GetList(st0.tiles_by_loc, key), 1)
                            ELSE st0
                     st2 == visit_bels(st1, node, record, rwire.belsUphill, TRUE, 1)
                     st3 == visit_bels(st2, node, record, rwire.belsDownhill, FALSE, 1)
                     st4 == visit_routes(st3, node, record, rwire.uphill \o rwire.downhill, 1)
                 IN visit_globals(st4, node, record)

RECURSIVE close_bels(_, _, _, _, _, _)
\* "for bel in rwire.belsUphill" and "for bel in rwire.belsDownhill" (lines 429-436)
close_bels(st, node, wirenode, bels, up, i) ==
    IF i > Len(bels) \/ st.raised THEN st
    ELSE IF bels[i][1].id # node.id.id THEN close_bels(st, node, wirenode, bels, up, i + 1)
    ELSE LET st1 == IF up THEN arc_graph_add_edge(st, bel_to_node(bels[i]), wirenode)
                    ELSE arc_graph_add_edge(st, wirenode, bel_to_node(bels[i]))
         IN close_bels(visit_node(st1, wirenode, FALSE), node, wirenode, bels, up, i + 1)

RECURSIVE close_wires(_, _, _, _)
\* "for _, rwire in rtile.wires.items()" (lines 426-436), the map in the order of its keys
close_wires(st, node, ids, i) ==
    IF i > Len(ids) \/ st.raised THEN st
    ELSE LET rwire == rtile_wire(Node_loc(node), ids[i])
             wirenode == Node(node.y, node.x, Ident_from_id(rwire.id), None)
             st1 == close_bels(st, node, wirenode, rwire.belsUphill, TRUE, 1)
             st2 == close_bels(st1, node, wirenode, rwire.belsDownhill, FALSE, 1)
         IN close_wires(st2, node, ids, i + 1)

\* the locals after an iteration, and where the loop goes on unless the iteration raised
Assign(st, next_pc) ==
    /\ cfg_pc' = IF st.raised THEN "raised" ELSE next_pc
    /\ arc_graph' = st.arc_graph
    /\ nodes_seen' = st.nodes_seen
    /\ bels_todo' = st.bels_todo
    /\ tiles_by_loc' = st.tiles_by_loc
    /\ cfg_stderr' = st.err
    /\ visit_log' = st.log
    /\ zero_edges' = st.zero

\* the entry of gen_config_graph(chip, rgraph, make_tiles_by_loc(chip)) on a device
InitConfigGraph ==
    /\ idents = IdTable
    /\ CompareIdle
    /\ VerilogIdle
    /\ \E items \in Devices :
           /\ device = Device(items)
           /\ tiles_by_loc = make_tiles_by_loc(items)
    /\ config_graph = ConnectionGraph
    /\ cfg_pc = "config"
    /\ cfg_stderr = <<>>
    /\ call = <<>>
    /\ cfg_cursor = [locs |-> tiles_by_loc_keys, tile |-> 1, arc |-> 1]
    /\ cfg_size = Len(tiles_by_loc_keys)
    /\ arc_graph = ConnectionGraph
    /\ nodes_seen = {}
    /\ bels_todo = {}
    /\ arcs_left = {}
    /\ bels_left = {}
    /\ visit_log = <<>>
    /\ zero_edges = {}
    /\ GraphIdle
    /\ LpfIdle

\* the configured arc the cursor of the loops of lines 316-320 is at, if it is at one
AtConfigArc ==
    /\ cfg_cursor.locs # <<>>
    /\ cfg_cursor.tile <= Len(tiles_by_loc[cfg_cursor.locs[1]])
    /\ cfg_cursor.arc <= Len(tiles_by_loc[cfg_cursor.locs[1]][cfg_cursor.tile].cfg.carcs)

ConfigArcAtCursor == tiles_by_loc[cfg_cursor.locs[1]][cfg_cursor.tile].cfg.carcs[cfg_cursor.arc]

ConfigArcId == rgraph_ident(ConfigArcAtCursor.source \o s_arrow \o ConfigArcAtCursor.sink)

ConfigArcLoc == Location(cfg_cursor.locs[1][1], cfg_cursor.locs[1][2])

\* one iteration of "for arc in tiledata.cfg.carcs" (lines 320-324)
ConfigArc ==
    /\ cfg_pc = "config"
    /\ AtConfigArc
    /\ IF ~rtile_has_arc(ConfigArcLoc, ConfigArcId)
       THEN \* KeyError at line 321
            /\ cfg_pc' = "raised"
            /\ UNCHANGED <<config_graph, tiles_by_loc, cfg_stderr, cfg_cursor>>
       ELSE /\ ConfigGraphAssign(
                   add_edge(config_graph, tiles_by_loc,
                            wire_to_node(rtile_arcs(ConfigArcLoc, ConfigArcId).source),
                            wire_to_node(rtile_arcs(ConfigArcLoc, ConfigArcId).sink)),
                   "config")
            /\ cfg_cursor' = [cfg_cursor EXCEPT !.arc = @ + 1]
    /\ UNCHANGED <<call, device, cfg_size, arc_graph, nodes_seen, bels_todo, arcs_left, bels_left,
                   visit_log, zero_edges>>
    /\ UNCHANGED notCfg

\* the loops of lines 316-320 move on: to the next tile of the location, to the next
\* location (the dict iterator raises if the dict has changed size), or past the loops
ConfigLoopNext ==
    /\ cfg_pc = "config"
    /\ ~AtConfigArc
    /\ IF cfg_cursor.tile <= Len(tiles_by_loc[cfg_cursor.locs[1]])
       THEN /\ cfg_cursor' = [cfg_cursor EXCEPT !.tile = @ + 1, !.arc = 1]
            /\ UNCHANGED <<cfg_pc, arcs_left>>
       ELSE IF Cardinality(DOMAIN tiles_by_loc) # cfg_size
       THEN \* RuntimeError: dictionary changed size during iteration
            /\ cfg_pc' = "raised"
            /\ UNCHANGED <<cfg_cursor, arcs_left>>
       ELSE IF Len(cfg_cursor.locs) > 1
       THEN /\ cfg_cursor' = [locs |-> Tail(cfg_cursor.locs), tile |-> 1, arc |-> 1]
            /\ UNCHANGED <<cfg_pc, arcs_left>>
       ELSE /\ cfg_cursor' = <<>>
            /\ cfg_pc' = "expand"
            /\ arcs_left' = Edges(config_graph)
    /\ UNCHANGED <<tiles_by_loc, config_graph, cfg_stderr, call, device, cfg_size, arc_graph,
                   nodes_seen, bels_todo, bels_left, visit_log, zero_edges>>
    /\ UNCHANGED notCfg

\* one iteration of the loops of lines 414-418, which take the edges of config_graph in
\* the order of its dict and sets
ExpandArc ==
    /\ cfg_pc = "expand"
    /\ \E e \in arcs_left :
        /\ Assign(visit_node(visit_node(arc_graph_add_edge(Locals, e[1], e[2]), e[1], TRUE),
                             e[2], TRUE),
                  "expand")
        /\ arcs_left' = arcs_left \ {e}
    /\ UNCHANGED <<config_graph, call, device, cfg_cursor, cfg_size, bels_left>>
    /\ UNCHANGED notCfg

\* the loop of lines 414-418 is over
ExpandDone ==
    /\ cfg_pc = "expand"
    /\ arcs_left = {}
    /\ cfg_pc' = "close"
    /\ bels_left' = bels_todo
    /\ UNCHANGED <<tiles_by_loc, config_graph, cfg_stderr, call, device, cfg_cursor, cfg_size,
                   arc_graph, nodes_seen, bels_todo, arcs_left, visit_log, zero_edges>>
    /\ UNCHANGED notCfg

\* one iteration of "for node in bels_todo" (lines 424-436)
CloseBel ==
    /\ cfg_pc = "close"
    /\ \E node \in bels_left :
        /\ Assign(close_wires(Locals, node, Ascending(rtile_wires(Node_loc(node))), 1), "close")
        /\ bels_left' = bels_left \ {node}
    /\ UNCHANGED <<config_graph, call, device, cfg_cursor, cfg_size, arcs_left>>
    /\ UNCHANGED notCfg

\* "return arc_graph" (line 438)
ConfigGraphReturn ==
    /\ cfg_pc = "close"
    /\ bels_left = {}
    /\ cfg_pc' = "returned"
    /\ UNCHANGED <<tiles_by_loc, config_graph, cfg_stderr, call, device, cfg_cursor, cfg_size,
                   arc_graph, nodes_seen, bels_todo, arcs_left, bels_left, visit_log, zero_edges>>
    /\ UNCHANGED notCfg

NextConfigGraph ==
    \/ ConfigArc
    \/ ConfigLoopNext
    \/ ExpandArc
    \/ ExpandDone
    \/ CloseBel
    \/ ConfigGraphReturn

SpecConfigGraph == InitConfigGraph /\ [][NextConfigGraph]_vars

----------------------------------------------------------------------------
(* C4: configured arcs the routing database does not have *)

\* the config arc loop is over
ConfigLoopOver == cfg_pc \in {"expand", "close", "returned"}

\* the configured arcs of the device whose name the routing database has at their location
RoutedConfigArcs ==
    {DevicePool[i].arc : i \in {j \in device.items :
        /\ DevicePool[j].kind = "carc"
        /\ rtile_has_arc(DevicePool[j].arc.loc, rgraph_ident(ArcName(DevicePool[j].arc)))}}

\* C4: no exception aborts the config arc loop (a configured arc whose name the routing
\* database does not have at its location is skipped), and once the loop is over every
\* configured arc the database does have has put an edge into its sink in config_graph
C4_LookupFailureSkipped ==
    /\ cfg_pc # "raised"
    /\ ConfigLoopOver =>
           \A arc \in RoutedConfigArcs :
               \E e \in Edges(config_graph) :
                   e[2] = WireNode(arc.loc.y, arc.loc.x, arc.sink)

----------------------------------------------------------------------------
(* C9: zero-bit defaults *)

\* the zero-bit sources the tile types at the location of a node register for its name
DefaultSources(node) ==
    {WireNode(node.y, node.x, device.zero[i].source) :
        i \in {j \in 1..Len(device.zero) :
                  /\ device.zero[j].sink = Node_name(node)
                  /\ \E t \in 1..Len(ChipTiles) :
                         /\ ChipTiles[t].loc = Node_loc(node)
                         /\ ChipTiles[t].type = device.zero[j].type}}

\* expansion has visited the node and has found its wire in the routing database
Processed(node) == node \in nodes_seen /\ node.id.id \in rtile_wires(Node_loc(node))

HasConfiguredDriver(node) == \E e \in Edges(config_graph) : e[2] = node

\* C9: once the loops over the configured arcs and the recorded bels have run an iteration
\* to its end, every visited node found in the routing database that no configured edge
\* drives has an edge in arc_graph from each zero-bit source registered for it, at its
\* own location; a node that a configured edge drives gets no edge from the zero-bit
\* branch, and has an edge from a registered zero-bit source only if that edge is configured
C9_ZeroBitDefaults ==
    ConfigLoopOver =>
        /\ \A node \in nodes_seen : \A sourcenode \in DefaultSources(node) :
               /\ (Processed(node) /\ ~HasConfiguredDriver(node))
                      => <<sourcenode, node>> \in Edges(arc_graph)
               /\ (HasConfiguredDriver(node) /\ <<sourcenode, node>> \in Edges(arc_graph))
                      => <<sourcenode, node>> \in Edges(config_graph)
        /\ \A e \in zero_edges : ~HasConfiguredDriver(e[2])

\* a finished run in which one visited node without a configured driver has its zero-bit
\* edge and another visited node with a registered zero-bit source has a configured driver
C9_Witness ==
    /\ cfg_pc = "returned"
    /\ \E node \in nodes_seen :
           /\ Processed(node) /\ ~HasConfiguredDriver(node)
           /\ \E sourcenode \in DefaultSources(node) : <<sourcenode, node>> \in Edges(arc_graph)
    /\ \E node \in nodes_seen :
           /\ HasConfiguredDriver(node)
           /\ \E sourcenode \in DefaultSources(node) : <<sourcenode, node>> \notin Edges(arc_graph)

----------------------------------------------------------------------------
(* C10: the pass over the recorded bels *)

\* the edge between a bel pin and the wire the routing database attaches it to
PinEdge(b) ==
    IF b.dir = "up" THEN <<bel_to_node(<<b.bel, b.pin>>), wire_to_node(b.wire)>>
    ELSE <<wire_to_node(b.wire), bel_to_node(<<b.bel, b.pin>>)>>

\* the pin edges of the recorded bels, and the wires adjacent to the recorded bels
RecordedPinEdges ==
    {PinEdge(device.bels[i]) :
        i \in {j \in 1..Len(device.bels) : wire_to_node(device.bels[j].bel) \in bels_todo}}

AdjacentWires ==
    {wire_to_node(device.bels[i].wire) :
        i \in {j \in 1..Len(device.bels) : wire_to_node(device.bels[j].bel) \in bels_todo}}

----------------------------------------------------------------------------
(* print_verilog: Python orderings                                          *)

\* the characters of node names in code point order
Alphabet ==
    <<"$", "0", "1", "2", "3", "4", "5", "6", "7", "8", "9", "A", "B", "C", "D", "E", "F", "G",
      "H", "I", "J", "K", "L", "M", "N", "O", "P", "Q", "R", "S", "T", "U", "V", "W", "X", "Y",
      "Z", "_">>

ord(c) == CHOOSE i \in 1..Len(Alphabet) : Alphabet[i] = c

RECURSIVE str_lt(_, _)
\* s < t on two str
str_lt(s, t) ==
    IF t = <<>> THEN FALSE
    ELSE IF s = <<>> THEN TRUE
    ELSE IF s[1] = t[1] THEN str_lt(Tail(s), Tail(t))
    ELSE ord(s[1]) < ord(t[1])

isdigit(c) == \E d \in 1..10 : Digits[d] = c

RECURSIVE span(_, _)
\* the length of the leading run of digits (digit = TRUE) or of other characters
span(s, digit) == IF s = <<>> \/ isdigit(s[1]) # digit THEN 0 ELSE 1 + span(Tail(s), digit)

RECURSIVE natsort_lt(_, _, _)
\* the order of natsort keys: a str is split into its runs of non-digits and digits, the
\* runs of digits compare as int and the others as str
natsort_chunk_lt(s, t, digit, n, m) ==
    IF digit /\ int(SubSeq(s, 1, n)) # int(SubSeq(t, 1, m))
    THEN int(SubSeq(s, 1, n)) < int(SubSeq(t, 1, m))
    ELSE IF ~digit /\ SubSeq(s, 1, n) # SubSeq(t, 1, m)
    THEN str_lt(SubSeq(s, 1, n), SubSeq(t, 1, m))
    ELSE natsort_lt(SubSeq(s, n + 1, Len(s)), SubSeq(t, m + 1, Len(t)), ~digit)

natsort_lt(s, t, digit) ==
    IF t = <<>> THEN FALSE
    ELSE IF s = <<>> THEN TRUE
    ELSE natsort_chunk_lt(s, t, digit, span(s, digit), span(t, digit))

\* the order natsorted sorts str by: natsort.natsorted, or sorted when the import failed
natsorted_lt(s, t) == IF natsort_imported THEN natsort_lt(s, t, FALSE) ELSE str_lt(s, t)

\* the list of the elements of a set in the strict total order lt
SortBy(S, lt(_, _)) ==
    [i \in 1..Cardinality(S) |-> CHOOSE x \in S : Cardinality({y \in S : lt(y, x)}) = i - 1]

\* Node.__str__; Node.mod_name_map is empty unless main was given --package
Node_str(node) ==
    IF Node_pin_name(node) # <<>> THEN Node_mod_name(node) \o <<"$">> \o Node_pin_name(node)
    ELSE Node_mod_name(node)

\* Node.__lt__ of dataclass(order=True): (y, x, id, pin), an Ident by its id; the nodes
\* print_verilog sorts have passed filter_node, so that no pin is None
Node_lt(a, b) ==
    IF a.y # b.y THEN a.y < b.y
    ELSE IF a.x # b.x THEN a.x < b.x
    ELSE IF a.id.id # b.id.id THEN a.id.id < b.id.id
    ELSE a.pin.id < b.pin.id

\* sorted(nodes)
sorted(S) == SortBy(S, Node_lt)

\* natsorted(nodes, key=str)
natsorted_nodes(S) == SortBy(S, LAMBDA a, b : natsorted_lt(Node_str(a), Node_str(b)))

\* natsorted(strs)
natsorted(S) == SortBy(S, natsorted_lt)

----------------------------------------------------------------------------
(* print_verilog: filter_node, Module and the calls of get_roots / get_leaves *)

filter_node(node) ==
    IF node.pin = None THEN FALSE
    ELSE IF contains(Node_mod_name(node), s_ECLKSYNC) THEN FALSE
    ELSE IF startswith(Node_pin_name(node), s_IOLDO) \/ startswith(Node_pin_name(node), s_IOLTO)
    THEN FALSE
    ELSE Node_pin_name(node) # s_INDD

\* "[node for node in ... if filter_node(node)]"
filtered(S) == {node \in S : filter_node(node)}

\* seen[node] = mark
Component_mark(st, node, mark) ==
    [st EXCEPT !.seen = [n \in DOMAIN @ \cup {node} |-> IF n = node THEN mark ELSE @[n]]]

RECURSIVE Component_visit(_, _, _)
RECURSIVE Component_visit_all(_, _, _)
\* the local visit(node) of get_roots (adj = "edges_rev") and get_leaves (adj = "edges_fwd"),
\* the whole call; st = [graph, seen, result, err]
Component_visit(adj, node, st) ==
    IF visit_is_seen(node, st.seen)
    THEN IF visit_in_progress(node, st.seen) THEN [st EXCEPT !.err = Append(@, node)] ELSE st
    ELSE IF Get(st.graph[adj], node) = {}
    THEN [Component_mark(st, node, 1) EXCEPT !.graph[adj] = Touch(@, node),
                                               !.result = @ \cup {node}]
    ELSE Component_mark(Component_visit_all(adj, st.graph[adj][node],
                                            Component_mark(st, node, 0)), node, 1)

\* "for x in <set>: visit(x)"
Component_visit_all(adj, xs, st) ==
    IF xs = {} THEN st
    ELSE LET x == CHOOSE x \in xs : TRUE
         IN Component_visit_all(adj, xs \ {x}, Component_visit(adj, x, st))

\* component.get_roots() / component.get_leaves() on the graph g
Component_get(adj, g, component) ==
    Component_visit_all(adj, component,
                        [graph |-> g, seen |-> EmptyMap, result |-> {}, err |-> <<>>])

\* lines 857-860 of one iteration, r = what get_leaves returned and wrote
extract_leaves(component, roots, r, st) ==
    [graph |-> r.graph,
     err |-> st.err \o r.err,
     list |-> IF filtered(r.result) = {} THEN st.list
              ELSE st.list \cup {[component |-> component, roots |-> roots,
                                  leaves |-> sorted(filtered(r.result))]}]

\* lines 854-856 of one iteration, r = what get_roots returned and wrote
extract_roots(component, r, st) ==
    IF filtered(r.result) = {} THEN [st EXCEPT !.graph = r.graph, !.err = @ \o r.err]
    ELSE extract_leaves(component, sorted(filtered(r.result)),
                        Component_get("edges_fwd", r.graph, component),
                        [st EXCEPT !.err = @ \o r.err])

RECURSIVE extract_components(_, _)
\* the loop of lines 853-860 over graph.get_components()
extract_components(comps, st) ==
    IF comps = {} THEN st
    ELSE LET component == CHOOSE c \in comps : TRUE
         IN extract_components(comps \ {component},
                               extract_roots(component,
                                             Component_get("edges_rev", st.graph, component),
                                             st))

\* the pins of Module.input_pins the netlists of the model use
input_pins(cls) == IF cls = "SliceModule" THEN {s_A0, s_M0} ELSE {s_ADA0}

\* the loop of lines 491-495 and the return of line 497
Module_find_tile(node, tbl, cls, hits) ==
    [raised |-> hits = {},
     none |-> FALSE,
     tiles_by_loc |-> TouchList(tbl, <<node.x, node.y>>),
     mod_def |-> IF hits = {} THEN <<>>
                 ELSE [cls |-> cls, module_name |-> Node_name(node),
                       tiledata |-> [key |-> <<node.x, node.y>>, index |-> FirstIndex(hits)],
                       pin_map |-> <<>>]]

Module_tile_hits(node, tbl, tiletype) ==
    {k \in 1..Len(GetList(tbl, <<node.x, node.y>>)) :
        startswith(GetList(tbl, <<node.x, node.y>>)[k].tile.info.type, tiletype)}

\* Module.create_from_node: [mod_def, none, raised, tiles_by_loc]; none tells that it
\* returned None
Module_create_from_node(node, tbl) ==
    IF startswith(Node_name(node), s_SLICE)
    THEN Module_find_tile(node, tbl, "SliceModule", Module_tile_hits(node, tbl, s_PLC2))
    ELSE IF startswith(Node_name(node), s_EBR)
    THEN Module_find_tile(node, tbl, "EBRModule", Module_tile_hits(node, tbl, s_MIB_EBR))
    ELSE [raised |-> FALSE, none |-> TRUE, tiles_by_loc |-> tbl, mod_def |-> <<>>]

\* lines 888-893, r = what create_from_node returned
bind_created(node, root, st, r) ==
    IF r.raised THEN [st EXCEPT !.raised = TRUE, !.tiles_by_loc = r.tiles_by_loc]
    ELSE IF r.none
    THEN [st EXCEPT !.mod_globals = @ \cup {node}, !.tiles_by_loc = r.tiles_by_loc]
    ELSE [st EXCEPT !.tiles_by_loc = r.tiles_by_loc,
                    !.modules = DictSet(@, Node_mod_name(node),
                                        [r.mod_def EXCEPT !.pin_map =
                                            DictSet(@, Node_pin_name(node), root)])]

\* the body of the loop of line 883
bind_node(node, root, st) ==
    IF Node_mod_name(node) \in DOMAIN st.modules
    THEN [st EXCEPT !.modules[Node_mod_name(node)].pin_map =
                        DictSet(@, Node_pin_name(node), root)]
    ELSE bind_created(node, root, st, Module_create_from_node(node, st.tiles_by_loc))

RECURSIVE bind_nodes(_, _, _, _)
\* "for node in roots + leaves" (line 883), up to the exception create_from_node may raise
bind_nodes(list, i, root, st) ==
    IF i > Len(list) \/ st.raised THEN st
    ELSE bind_nodes(list, i + 1, root, bind_node(list[i], root, st))

\* "if len(roots) > 1" (line 872) with the threshold one higher
is_multi_root_above_two(roots) == Len(roots) > 2

\* "if len(roots) > 1" (line 872)
is_multi_root(roots) == Len(roots) > 1

----------------------------------------------------------------------------
(* print_verilog: the lines of the output                                   *)

Text(text) == [kind |-> "text", text |-> text]

\* the print calls of lines 873-877
multi_root_lines(roots, leaves) ==
    <<Text(""), Text("Unhandled multi-root component:"),
      [kind |-> "roots", nodes |-> roots], [kind |-> "leaves", nodes |-> leaves]>>

\* s.split(".", 1); the enum names of the tiles all hold a ".", so that unpacking the
\* result into two names does not raise
split_dot(s) ==
    IF contains(s, <<".">>)
    THEN LET i == CHOOSE i \in 1..Len(s) : s[i] = "." /\ \A j \in 1..(i - 1) : s[j] # "."
         IN <<SubSeq(s, 1, i - 1), SubSeq(s, i + 1, Len(s))>>
    ELSE <<s>>

\* the tiledata a Module holds
Module_tiledata(mod_def) == tiles_by_loc[mod_def.tiledata.key][mod_def.tiledata.index]

\* the renames print_instance passes to _print_parameters
param_renames(cls, ename) ==
    IF cls = "SliceModule" /\ ename = <<"K", "0", "_", "I", "N", "I", "T">>
    THEN <<"L", "U", "T", "0", "_", "I", "N", "I", "T", "V", "A", "L">>
    ELSE IF cls = "SliceModule" /\ ename = <<"K", "1", "_", "I", "N", "I", "T">>
    THEN <<"L", "U", "T", "1", "_", "I", "N", "I", "T", "V", "A", "L">>
    ELSE ename

\* Module._print_parameters: the enums of the tile that belong to the module
print_parameters(mod_def, cenums) ==
    Map(LAMBDA e : [name |-> param_renames(mod_def.cls, replace(split_dot(e.name)[2], <<".">>, <<"_">>)),
                    value |-> e.value],
        SelectSeq(cenums, LAMBDA e : split_dot(e.name)[1] = mod_def.module_name))

\* Module._print_pins: the bindings, the input pins first
print_pins(mod_def) ==
    Map(LAMBDA pin : [pin |-> pin, node |-> mod_def.pin_map[pin]],
        natsorted(DOMAIN mod_def.pin_map \cap input_pins(mod_def.cls))
            \o natsorted(DOMAIN mod_def.pin_map \ input_pins(mod_def.cls)))

\* print_instance
print_instance(mod_def, instname) ==
    [kind |-> "instance", cls |-> mod_def.cls, name |-> instname,
     params |-> print_parameters(mod_def, Module_tiledata(mod_def).cfg.cenums),
     pins |-> print_pins(mod_def)]

\* lines 913-915: one line per global input and output; print() of no line is an empty line
port_lines(inputs, outputs) ==
    IF inputs \cup outputs = {} THEN <<Text("")>>
    ELSE Map(LAMBDA node : [kind |-> "port", dir |-> "input", node |-> node],
             natsorted_nodes(inputs))
         \o Map(LAMBDA node : [kind |-> "port", dir |-> "output", node |-> node],
                natsorted_nodes(outputs))

\* the enums some created module has claimed (lines 937-943), as (key, index, i)
seen_enums ==
    UNION {{<<modules[m].tiledata.key, modules[m].tiledata.index, i>> :
               i \in {i \in 1..Len(Module_tiledata(modules[m]).cfg.cenums) :
                        split_dot(Module_tiledata(modules[m]).cfg.cenums[i].name)[1]
                            = modules[m].module_name}} : m \in DOMAIN modules}

\* the keys of tiles_by_loc sorted by (loc[1], loc[0])
sorted_keys ==
    SortBy(DOMAIN tiles_by_loc,
           LAMBDA a, b : IF a[2] # b[2] THEN a[2] < b[2] ELSE a[1] < b[1])

RECURSIVE Concat(_)
\* the lists of a list, joined
Concat(lists) == IF lists = <<>> THEN <<>> ELSE Head(lists) \o Concat(Tail(lists))

\* lines 948-952: the enums no module has claimed
unhandled_enums ==
    Concat(Map(LAMBDA key :
                  Concat(Map(LAMBDA k :
                                Map(LAMBDA i : [kind |-> "enum", key |-> key,
                                                name |-> tiles_by_loc[key][k].cfg.cenums[i].name,
                                                value |-> tiles_by_loc[key][k].cfg.cenums[i].value],
                                    SelectSeq([i \in 1..Len(tiles_by_loc[key][k].cfg.cenums) |-> i],
                                              LAMBDA i : <<key, k, i>> \notin seen_enums)),
                             [k \in 1..Len(tiles_by_loc[key]) |-> k])),
               sorted_keys))

\* lines 907-958 once the definitions were printed in the order types
module_lines(types) ==
    <<Text("*/")>>
    \o Map(LAMBDA cls : [kind |-> "definition", cls |-> cls], types)
    \o <<Text("module top(")>>
    \o port_lines(mod_sources \cap mod_globals, DOMAIN mod_sinks \cap mod_globals)
    \o <<Text(");"), Text("")>>
    \o Map(LAMBDA node : [kind |-> "wire", node |-> node],
           natsorted_nodes(mod_sources \ mod_globals))
    \o <<Text("")>>
    \o Map(LAMBDA node : [kind |-> "assign", node |-> node, source |-> mod_sinks[node]],
           natsorted_nodes(DOMAIN mod_sinks \cap mod_globals))
    \o <<Text("")>>
    \o Map(LAMBDA modname : print_instance(modules[modname], modname),
           natsorted(DOMAIN modules))
    \o <<Text("/* Unhandled enums/words:")>>
    \o unhandled_enums
    \o <<Text("*/"), Text("endmodule")>>

----------------------------------------------------------------------------
(* print_verilog(graph, tiles_by_loc, "top") on the netlists of a small device *)

\* the nodes of the netlists: outputs and inputs of two slices, the pad and the delayed
\* input of an I/O block, a block RAM input, a slice at a location without logic tile, and
\* the wires between them
NetNode(k) ==
    CASE k = "QA" -> PinNode(1, 1, s_SLICEA, s_Q0)
      [] k = "QB" -> PinNode(1, 1, s_SLICEB, s_Q0)
      [] k = "AA" -> PinNode(1, 1, s_SLICEA, s_A0)
      [] k = "MB" -> PinNode(1, 1, s_SLICEB, s_M0)
      [] k = "PO" -> PinNode(1, 1, s_PIOA, s_O)
      [] k = "PI" -> PinNode(1, 1, s_PIOA, s_I)
      [] k = "ND" -> PinNode(1, 1, s_IOLOGICA, s_INDD)
      [] k = "EB" -> PinNode(1, 10, s_EBR0, s_ADA0)
      [] k = "SX" -> PinNode(0, 1, s_SLICEA, s_A0)
      [] k = "N1" -> WireNode(1, 1, W1)
      [] k = "N2" -> WireNode(1, 1, W2)
      [] k = "N3" -> WireNode(1, 1, W3)

\* the edges gen_config_graph may have put between them: block pin to wire, wire to wire,
\* wire to block pin
NetEdgePool ==
    <<<<"QA", "N1">>, <<"QB", "N1">>, <<"N1", "AA">>, <<"QA", "N2">>, <<"N2", "MB">>,
      <<"N1", "N3">>, <<"N2", "N3">>, <<"N3", "MB">>, <<"ND", "N1">>, <<"PO", "N2">>,
      <<"N3", "PI">>, <<"N3", "N1">>, <<"N2", "EB">>, <<"N3", "SX">>>>

\* the largest number of edges a netlist has
MaxNetEdges == 5

Nets == {picked \in SUBSET (1..Len(NetEdgePool)) : Cardinality(picked) <= MaxNetEdges}

\* the graph after add_edge was called on the picked edges
NetGraph(E) ==
    [edges_fwd |-> [s \in {e[1] : e \in E} |-> {e[2] : e \in {f \in E : f[1] = s}}],
     edges_rev |-> [s \in {e[2] : e \in E} |-> {e[1] : e \in {f \in E : f[2] = s}}]]

\* tiles_by_loc of the device: a logic tile whose enums configure slice A, and a block RAM
\* tile in column 10
NetTiles ==
    DictOf({<<<<1, 1>>, <<TileData(s_PLC2, <<>>, <<>>,
                                   <<[name |-> s_SLICEA \o s_dot_MODE, value |-> s_LOGIC],
                                     [name |-> s_PIOA \o s_dot_MODE, value |-> s_LOGIC]>>)>>>>,
            <<<<10, 1>>, <<TileData(s_MIB_EBR \o <<"0">>, <<>>, <<>>, <<>>)>>>>})

InitVerilog ==
    /\ idents = IdTable
    /\ CompareIdle
    /\ natsort_imported \in BOOLEAN
    /\ \E picked \in Nets :
          graph = NetGraph({<<NetNode(NetEdgePool[i][1]), NetNode(NetEdgePool[i][2])>> :
                               i \in picked})
    /\ tiles_by_loc = NetTiles
    /\ pv_pc = "call"
    /\ sorted_components = <<>>
    /\ component_index = 0
    /\ mod_sources = {}
    /\ mod_sinks = <<>>
    /\ mod_globals = {}
    /\ modules = <<>>
    /\ globals_left = {}
    /\ stdout = <<>>
    /\ components = {}
    /\ pc = "idle"
    /\ nodes = {}
    /\ todo = {}
    /\ stack = <<>>
    /\ seen = EmptyMap
    /\ result = {}
    /\ stderr = <<>>
    /\ entered = [n \in GraphNodes |-> 0]
    /\ config_graph = ConnectionGraph
    /\ cfg_pc = "returned"
    /\ cfg_stderr = <<>>
    /\ call = <<>>
    /\ ExpansionIdle
    /\ LpfIdle

\* what the loop of lines 853-860 leaves behind, and line 861
ExtractAssign(st) ==
    /\ graph' = st.graph
    /\ stderr' = stderr \o st.err
    /\ sorted_components' = SortBy(st.list, LAMBDA a, b : Node_lt(a.roots[1], b.roots[1]))

\* lines 851-870: the components with their filtered roots and leaves, sorted, and the
\* first line of the output
PvExtract ==
    /\ UNCHANGED notVerilog
    /\ pv_pc = "call"
    /\ ExtractAssign(extract_components(get_components(graph),
                                        [graph |-> graph, err |-> <<>>, list |-> {}]))
    /\ stdout' = <<Text("/* Automatically generated by ecp_vlog.py")>>
    /\ pv_pc' = "components"
    /\ UNCHANGED <<tiles_by_loc, component_index, mod_sources, mod_sinks, mod_globals, modules,
                   globals_left>>

\* what lines 880-893 leave behind for a component with the root roots[0]
ComponentAssign(entry, st) ==
    /\ mod_sources' = mod_sources \cup {entry.roots[1]}
    /\ mod_sinks' = [n \in DOMAIN mod_sinks \cup {entry.leaves[i] : i \in 1..Len(entry.leaves)} |->
                        IF \E i \in 1..Len(entry.leaves) : entry.leaves[i] = n
                        THEN entry.roots[1] ELSE mod_sinks[n]]
    /\ modules' = st.modules
    /\ mod_globals' = st.mod_globals
    /\ tiles_by_loc' = st.tiles_by_loc
    /\ pv_pc' = (IF st.raised THEN "raised" ELSE "components")

\* one iteration of the loop of line 871
PvComponentAt(entry) ==
    IF is_multi_root(entry.roots)
    THEN /\ stdout' = stdout \o multi_root_lines(entry.roots, entry.leaves)
         /\ UNCHANGED <<tiles_by_loc, mod_sources, mod_sinks, mod_globals, modules, pv_pc>>
    ELSE /\ ComponentAssign(entry,
                            bind_nodes(entry.roots \o entry.leaves, 1, entry.roots[1],
                                       [modules |-> modules, mod_globals |-> mod_globals,
                                        tiles_by_loc |-> tiles_by_loc, raised |-> FALSE]))
         /\ UNCHANGED stdout

PvComponent ==
    /\ UNCHANGED notVerilog
    /\ pv_pc = "components"
    /\ component_index < Len(sorted_components)
    /\ component_index' = component_index + 1
    /\ PvComponentAt(sorted_components[component_index + 1])
    /\ UNCHANGED <<graph, stderr, sorted_components, globals_left>>

\* the loop of line 871 is over; "for node in mod_globals" (line 896) begins
PvComponentsDone ==
    /\ UNCHANGED notVerilog
    /\ pv_pc = "components"
    /\ component_index = Len(sorted_components)
    /\ pv_pc' = "sinks"
    /\ globals_left' = mod_globals
    /\ UNCHANGED <<graph, stderr, tiles_by_loc, sorted_components, component_index, mod_sources,
                   mod_sinks, mod_globals, modules, stdout>>

\* one iteration of the loop of lines 896-899, in the order the set yields its nodes
PvPruneSink ==
    /\ UNCHANGED notVerilog
    /\ pv_pc = "sinks"
    /\ \E node \in globals_left :
          /\ globals_left' = globals_left \ {node}
          /\ IF node \in DOMAIN mod_sinks /\ mod_sinks[node] \in mod_globals
             THEN /\ stdout' = Append(stdout, [kind |-> "passed_through",
                                               source |-> mod_sinks[node], node |-> node])
                  /\ mod_sinks' = [n \in DOMAIN mod_sinks \ {node} |-> mod_sinks[n]]
             ELSE UNCHANGED <<stdout, mod_sinks>>
    /\ UNCHANGED <<graph, stderr, tiles_by_loc, pv_pc, sorted_components, component_index,
                   mod_sources, mod_globals, modules>>

\* the loop of line 896 is over; "for node in mod_globals" (line 903) begins
PvSinksDone ==
    /\ UNCHANGED notVerilog
    /\ pv_pc = "sinks"
    /\ globals_left = {}
    /\ pv_pc' = "sources"
    /\ globals_left' = mod_globals
    /\ UNCHANGED <<graph, stderr, tiles_by_loc, sorted_components, component_index, mod_sources,
                   mod_sinks, mod_globals, modules, stdout>>

\* an all_sources that counts every global as read
all_sources_with_globals == {mod_sinks[sink] : sink \in DOMAIN mod_sinks} \cup mod_globals

\* an all_sources that counts the roots of the global sinks only
all_sources_of_global_sinks == {mod_sinks[sink] : sink \in DOMAIN mod_sinks \cap mod_globals}

\* lines 900-902
all_sources == {mod_sinks[sink] : sink \in DOMAIN mod_sinks}

\* one iteration of the loop of lines 903-906
PvPruneSource ==
    /\ UNCHANGED notVerilog
    /\ pv_pc = "sources"
    /\ \E node \in globals_left :
          /\ globals_left' = globals_left \ {node}
          /\ IF node \in mod_sources /\ node \notin all_sources
             THEN /\ stdout' = Append(stdout, [kind |-> "unused_input", node |-> node])
                  /\ mod_sources' = mod_sources \ {node}
             ELSE UNCHANGED <<stdout, mod_sources>>
    /\ UNCHANGED <<graph, stderr, tiles_by_loc, pv_pc, sorted_components, component_index,
                   mod_sinks, mod_globals, modules>>

\* lines 907-958: the module; the definitions come in the order the set of line 909 yields
\* the classes
PvEmit ==
    /\ UNCHANGED notVerilog
    /\ pv_pc = "sources"
    /\ globals_left = {}
    /\ pv_pc' = "returned"
    /\ \E types \in SeqsUpTo({"SliceModule", "EBRModule"}, 2) :
          /\ {types[i] : i \in 1..Len(types)} = {modules[m].cls : m \in DOMAIN modules}
          /\ Len(types) = Cardinality({modules[m].cls : m \in DOMAIN modules})
          /\ stdout' = stdout \o module_lines(types)
    /\ UNCHANGED <<graph, stderr, tiles_by_loc, sorted_components, component_index, mod_sources,
                   mod_sinks, mod_globals, modules, globals_left>>

NextVerilog ==
    \/ PvExtract
    \/ PvComponent
    \/ PvComponentsDone
    \/ PvPruneSink
    \/ PvSinksDone
    \/ PvPruneSource
    \/ PvEmit

SpecVerilog == InitVerilog /\ [][NextVerilog]_vars

----------------------------------------------------------------------------
(* C3: components with several drivers *)

Neighbours(S) ==
    S \cup UNION {Get(graph.edges_fwd, n) \cup Get(graph.edges_rev, n) : n \in S}

RECURSIVE Connected(_)
\* the nodes joined to those of S by edges in either direction
Connected(S) == IF Neighbours(S) = S THEN S ELSE Connected(Neighbours(S))

NetComponents ==
    {Connected({n}) : n \in {e[1] : e \in Edges(graph)} \cup {e[2] : e \in Edges(graph)}}

Drivers(n) == Get(graph.edges_rev, n)

Roots(c) == {n \in c : Get(graph.edges_rev, n) = {}}

Leaves(c) == {n \in c : Get(graph.edges_fwd, n) = {}}

\* the output holds the multi-root report of the component c
Reported(c) ==
    \E i \in 2..(Len(stdout) - 1) :
        /\ stdout[i - 1].kind = "text"
        /\ stdout[i - 1].text = "Unhandled multi-root component:"
        /\ stdout[i].kind = "roots"
        /\ {stdout[i].nodes[k] : k \in 1..Len(stdout[i].nodes)} = filtered(Roots(c))
        /\ stdout[i + 1].kind = "leaves"
        /\ {stdout[i + 1].nodes[k] : k \in 1..Len(stdout[i + 1].nodes)} = filtered(Leaves(c))

\* the node n stands in a line of the module: a port, a wire, an assign, or a pin binding
\* of an instance (as the bound pin or as the signal bound to a pin)
Emitted(n) ==
    \E i \in 1..Len(stdout) :
        \/ stdout[i].kind \in {"port", "wire"} /\ stdout[i].node = n
        \/ stdout[i].kind = "assign" /\ (stdout[i].node = n \/ stdout[i].source = n)
        \/ /\ stdout[i].kind = "instance"
           /\ \E k \in 1..Len(stdout[i].pins) :
                 \/ stdout[i].pins[k].node = n
                 \/ /\ stdout[i].name = Node_mod_name(n)
                    /\ stdout[i].pins[k].pin = Node_pin_name(n)

\* the node n is in one of the collections the module is printed from
Collected(n) ==
    \/ n \in mod_sources \cup mod_globals \cup DOMAIN mod_sinks
    \/ \E s \in DOMAIN mod_sinks : mod_sinks[s] = n
    \/ \E m \in DOMAIN modules :
          \/ \E p \in DOMAIN modules[m].pin_map : modules[m].pin_map[p] = n
          \/ m = Node_mod_name(n) /\ Node_pin_name(n) \in DOMAIN modules[m].pin_map

\* the loop over the components has run to its end
ComponentsLoopOver == pv_pc \in {"sinks", "sources", "returned"}

\* C3 (as claimed): once print_verilog has returned, every component in which two distinct
\* driver nodes feed the same sink node has at least two roots, is reported as an unhandled
\* multi-root component, and none of its nodes stands in the emitted module, neither as a
\* port, an internal wire, an assign, nor an instance pin binding.
C3_TwoDriversUnhandled ==
    pv_pc = "returned" =>
        \A c \in NetComponents :
            (\E s \in c : Cardinality(Drivers(s)) >= 2) =>
                /\ Cardinality(Roots(c)) >= 2
                /\ Reported(c)
                /\ \A n \in c : ~Emitted(n)

\* C3 (amended): a component with two or more roots that pass filter_node and at least one
\* leaf that passes it never has a node in mod_sources, mod_sinks, mod_globals or a pin_map,
\* is reported as an unhandled multi-root component once the loop over the components is
\* over, and has no node in a port, wire, assign or instance pin binding of the output; a
\* component with fewer than two such roots is never reported, whatever the number of
\* drivers of its sinks.
C3_MultiRootUnhandled ==
    \A c \in NetComponents :
        IF Cardinality(filtered(Roots(c))) >= 2 /\ filtered(Leaves(c)) # {}
        THEN /\ \A n \in c : ~Collected(n) /\ ~Emitted(n)
             /\ ComponentsLoopOver => Reported(c)
        ELSE ~Reported(c)

\* print_verilog has returned on a netlist in which two slice outputs, both roots, drive
\* one wire: the component is reported, and an instance of another component is printed
C3_Witness ==
    /\ pv_pc = "returned"
    /\ \E c \in NetComponents :
          /\ \E s \in c : \E d \in Drivers(s) \cap filtered(Roots(c)) :
                \E e \in Drivers(s) \cap filtered(Roots(c)) : d # e
          /\ filtered(Leaves(c)) # {}
          /\ Reported(c)
    /\ \E i \in 1..Len(stdout) : stdout[i].kind = "instance"

----------------------------------------------------------------------------
(* Ident and Node: the comparisons dataclass(eq=True, order=True) generates *)

\* the answer of a comparison: Python's True or False, or the TypeError it raised
Bool(b) == IF b THEN "True" ELSE "False"

\* Ident.__eq__: label has compare=False, so that only the ids are compared
Ident_eq(a, b) == a.id = b.id

\* Ident.__lt__: (id,) < (id,)
Ident_lt(a, b) == a.id < b.id

\* the comparison of line 53 with the label as the key
Ident_lt_by_label(a, b) == str_lt(a.label, b.label)

\* x == y on two Optional[Ident]
pin_eq(a, b) == IF a = None \/ b = None THEN a = b ELSE Ident_eq(a, b)

\* Node.__eq__: (y, x, id, pin) == (y, x, id, pin)
Node_eq(a, b) == a.y = b.y /\ a.x = b.x /\ Ident_eq(a.id, b.id) /\ pin_eq(a.pin, b.pin)

\* Node.__lt__: (y, x, id, pin) < (y, x, id, pin), the order of the first pair of elements
\* that are not equal; None < Ident raises TypeError
Node_order(a, b) ==
    IF a.y # b.y THEN Bool(a.y < b.y)
    ELSE IF a.x # b.x THEN Bool(a.x < b.x)
    ELSE IF ~Ident_eq(a.id, b.id) THEN Bool(Ident_lt(a.id, b.id))
    ELSE IF pin_eq(a.pin, b.pin) THEN "False"
    ELSE IF a.pin = None \/ b.pin = None THEN "TypeError"
    ELSE Bool(Ident_lt(a.pin, b.pin))

\* the largest row and column of the nodes that are compared
MaxCoord == 1

\* the nodes that are compared: wires and block pins whose labels are not in the order of
\* their ids
CompareNodes ==
    {Node(y, x, Ident_from_label(label), pin) :
        y \in 0..MaxCoord, x \in 0..MaxCoord,
        label \in {W1, W2, s_F5A_SLICE, s_SLICEA},
        pin \in {None, Ident_from_label(s_A0), Ident_from_label(s_Q0)}}

InitCompare ==
    /\ idents = IdTable
    /\ cmp_self \in CompareNodes
    /\ cmp_other \in CompareNodes
    /\ cmp_result = [state |-> "pending"]
    /\ VerilogIdle
    /\ GraphIdle
    /\ LpfIdle
    /\ CfgIdle

\* self < other, self > other and self == other are evaluated
Compare ==
    /\ cmp_result.state = "pending"
    /\ cmp_result' = [state |-> "done",
                      lt |-> Node_order(cmp_self, cmp_other),
                      gt |-> Node_order(cmp_other, cmp_self),
                      eq |-> Node_eq(cmp_self, cmp_other)]
    /\ UNCHANGED <<cmp_self, cmp_other, graphVars, lpfVars, cfgVars, pvVars, idents>>

NextCompare == Compare

SpecCompare == InitCompare /\ [][NextCompare]_vars

\* (row, column, label) of self is below that of other
LabelKeyLess(a, b) ==
    IF a.y # b.y THEN a.y < b.y
    ELSE IF a.x # b.x THEN a.x < b.x
    ELSE str_lt(a.id.label, b.id.label)

DifferOnlyInPin(a, b) == a.y = b.y /\ a.x = b.x /\ a.id = b.id /\ a.pin # b.pin

\* C11 (as claimed): a < b iff (a.row, a.col, a.label) < (b.row, b.col, b.label), and two
\* nodes that differ only in pin are neither less nor greater than each other yet unequal.
C11_OrderByRowColumnLabel ==
    cmp_result.state = "done" =>
        /\ (cmp_result.lt = "True") <=> LabelKeyLess(cmp_self, cmp_other)
        /\ DifferOnlyInPin(cmp_self, cmp_other) =>
              cmp_result.lt = "False" /\ cmp_result.gt = "False" /\ ~cmp_result.eq

----------------------------------------------------------------------------
(* C12, C13: the order and the stream of what print_verilog writes *)

\* the lines of the given kinds, in the order they were printed
LinesOf(kinds) == SelectSeq(stdout, LAMBDA line : line.kind \in kinds)

\* the block kinds by name
KindBefore(c, d) == c = "EBRModule" /\ d = "SliceModule"

\* C12 (as claimed): whatever print_verilog has written once it returned was written in
\* the order of a sort key: the block definitions by kind, the notes of the pruned ports by
\* node, the multi-root reports by first root, so that a second run over the same input
\* prints the same text.
C12_OutputOrderFixed ==
    pv_pc = "returned" =>
        /\ \A i, j \in 1..Len(LinesOf({"definition"})) :
              i < j => KindBefore(LinesOf({"definition"})[i].cls, LinesOf({"definition"})[j].cls)
        /\ \A i, j \in 1..Len(LinesOf({"passed_through", "unused_input"})) :
              (i < j /\ LinesOf({"passed_through", "unused_input"})[i].kind
                            = LinesOf({"passed_through", "unused_input"})[j].kind)
                 => Node_lt(LinesOf({"passed_through", "unused_input"})[i].node,
                            LinesOf({"passed_through", "unused_input"})[j].node)
        /\ \A i, j \in 1..Len(LinesOf({"roots"})) :
              i < j => Node_lt(LinesOf({"roots"})[i].nodes[1], LinesOf({"roots"})[j].nodes[1])

\* C13 (as claimed): the output stream holds nothing but the module text, the leading
\* multi-root comment and the trailing comment of the unhandled fields; the notices of the
\* pruned pass-through outputs and unused inputs are not written to it.
C13_DiagnosticsOffOutput ==
    \A i \in 1..Len(stdout) :
        stdout[i].kind \in {"text", "roots", "leaves", "definition", "port", "wire", "assign",
                            "instance", "enum"}

----------------------------------------------------------------------------
(* C14: the two adjacency maps of a ConnectionGraph *)

\* the edges the forward map holds, and those the reverse map holds, as (source, sink)
FwdPairs(g) == UNION {{<<a, b>> : b \in g.edges_fwd[a]} : a \in DOMAIN g.edges_fwd}

RevPairs(g) == UNION {{<<a, b>> : a \in g.edges_rev[b]} : b \in DOMAIN g.edges_rev}

Mirrored(g) == FwdPairs(g) = RevPairs(g)

\* C14: in every state, in the graph under analysis as in config_graph and arc_graph, sink
\* is in the forward set of source iff source is in the reverse set of sink; a step of
\* get_components, get_roots or get_leaves adds and removes no edge, and a step that
\* changes the edges adds exactly one edge to both maps.
C14_AdjacencyMirror ==
    /\ [](Mirrored(graph) /\ Mirrored(config_graph) /\ Mirrored(arc_graph))
    /\ [][(pc # "idle" \/ pc' # "idle" \/ components' # {})
             => (FwdPairs(graph') = FwdPairs(graph) /\ RevPairs(graph') = RevPairs(graph))]_vars
    /\ [][FwdPairs(graph') # FwdPairs(graph)
             => \E e \in FwdPairs(graph') : FwdPairs(graph') = FwdPairs(graph) \cup {e}]_vars

\* get_roots has returned on a graph of two or more edges after its reads of the
\* defaultdict left a key with an empty set in the reverse map
C14_Witness ==
    /\ pc = "roots_returned"
    /\ Cardinality(FwdPairs(graph)) >= 2
    /\ \E n \in DOMAIN graph.edges_rev : graph.edges_rev[n] = {}
    /\ result # {}

----------------------------------------------------------------------------
(* C15: a device with one configured connection *)

\* the configured arcs of the device
ConfigArcs ==
    {DevicePool[i].arc : i \in {j \in device.items : DevicePool[j].kind = "carc"}}

\* the arc takes none of the special-case branches of add_edge (lines 293, 305, 308)
PlainArc(arc) ==
    /\ ~(match_F5X_SLICE(arc.source) /\ match_F_digit(arc.sink))
    /\ ~startswith(Node_pin_name(WireNode(arc.loc.y, arc.loc.x, arc.source)), s_RXDATA)
    /\ ~startswith(Node_pin_name(WireNode(arc.loc.y, arc.loc.x, arc.sink)), s_TXDATA)

\* C15: when the tiles of the device hold one configured connection A->B in all, and it
\* takes none of the special-case branches of add_edge, the config graph the loop over
\* the configured arcs has built has the one forward entry A -> {B} and the one reverse
\* entry B -> {A}, and expansion leaves it so.
C15_SingleConnection ==
    \A arc \in ConfigArcs :
        (ConfigLoopOver /\ ConfigArcs = {arc} /\ PlainArc(arc)) =>
            /\ config_graph.edges_fwd =
                   (WireNode(arc.loc.y, arc.loc.x, arc.source)
                        :> {WireNode(arc.loc.y, arc.loc.x, arc.sink)})
            /\ config_graph.edges_rev =
                   (WireNode(arc.loc.y, arc.loc.x, arc.sink)
                        :> {WireNode(arc.loc.y, arc.loc.x, arc.source)})

\* gen_config_graph has returned on a device whose one configured connection is W1->W2,
\* among other items of the routing and bit databases
C15_Witness ==
    /\ cfg_pc = "returned"
    /\ ConfigArcs = {DbArc(loc_P, W1, s_arrow, W2)}
    /\ Cardinality(device.items) > 1
    /\ Cardinality(Edges(arc_graph)) > 1
    /\ Edges(config_graph) = {<<WireNode(1, 1, W1), WireNode(1, 1, W2)>>}

----------------------------------------------------------------------------
(* C16: the pruning of globals and the port list *)

\* the component of the netlist that holds the node n
ComponentOf(n) == Connected({n})

\* the component is one the loop of line 871 wires up: one root and some leaf pass filter_node
Handled(c) == Cardinality(filtered(Roots(c))) = 1 /\ filtered(Leaves(c)) # {}

\* the output has a port line of the direction for the node
Port(dir, n) ==
    \E i \in 1..Len(stdout) :
        stdout[i].kind = "port" /\ stdout[i].dir = dir /\ stdout[i].node = n

\* how many pruning notes of the kind the output has for the node
Notes(kind, n) ==
    Cardinality({i \in 1..Len(stdout) : stdout[i].kind = kind /\ stdout[i].node = n})

\* global leaves of a handled component whose root is a global, and global roots of a
\* handled component none of whose leaves is an instance pin
PassedThrough ==
    {n \in mod_globals :
        /\ Handled(ComponentOf(n))
        /\ n \in filtered(Leaves(ComponentOf(n)))
        /\ filtered(Roots(ComponentOf(n))) \subseteq mod_globals}

UnusedInputs ==
    {n \in mod_globals :
        /\ Handled(ComponentOf(n))
        /\ n \in filtered(Roots(ComponentOf(n)))
        /\ filtered(Leaves(ComponentOf(n))) \subseteq mod_globals}

\* C16: once print_verilog has returned, no output port is a global leaf whose root is a
\* global, and no input port is a global root without an instance pin or a remaining
\* output port among its leaves; each port pruned so has exactly one note of its kind in
\* the output and no other node has one; and every global root of a wired component that
\* has an instance pin or a remaining output port among its leaves is an input port.
C16_GlobalPruning ==
    pv_pc = "returned" =>
        /\ \A n \in DOMAIN graph.edges_fwd \cup DOMAIN graph.edges_rev :
              /\ Port("output", n) => n \notin PassedThrough
              /\ Port("input", n) =>
                    \E l \in filtered(Leaves(ComponentOf(n))) :
                        l \notin mod_globals \/ Port("output", l)
              /\ Notes("passed_through", n) = (IF n \in PassedThrough THEN 1 ELSE 0)
              /\ Notes("unused_input", n) = (IF n \in UnusedInputs THEN 1 ELSE 0)
        /\ \A n \in mod_globals :
              (/\ Handled(ComponentOf(n))
               /\ n \in filtered(Roots(ComponentOf(n)))
               /\ \E l \in filtered(Leaves(ComponentOf(n))) :
                     l \notin mod_globals \/ Port("output", l))
                 => Port("input", n)

\* print_verilog has returned with a passed-through output pruned and noted, and the
\* global input behind it kept as a port because it feeds an instance pin as well
C16_Witness ==
    /\ pv_pc = "returned"
    /\ \E n \in PassedThrough :
          /\ Notes("passed_through", n) = 1
          /\ \E r \in filtered(Roots(ComponentOf(n))) :
                Port("input", r) /\ Notes("unused_input", r) = 0
    /\ \E i \in 1..Len(stdout) : stdout[i].kind = "instance"

----------------------------------------------------------------------------
(* C17: what get_roots and get_leaves return *)

\* C17: get_roots called on a component of the graph returns exactly the nodes of the
\* component that have no reverse edge, get_leaves exactly those that have no forward
\* edge, and at no step of either call does the result hold a node outside the component.
C17_RootsAndLeaves ==
    /\ pc = "roots_returned" => result = {n \in nodes : Get(graph.edges_rev, n) = {}}
    /\ pc = "leaves_returned" => result = {n \in nodes : Get(graph.edges_fwd, n) = {}}
    /\ result \subseteq nodes
    /\ pc # "idle" => nodes \in get_components(graph)

\* get_leaves has returned the two leaves of a component that has a node with forward
\* edges as well, without a warning
C17_Witness ==
    /\ pc = "leaves_returned"
    /\ Cardinality(result) = 2
    /\ result # nodes
    /\ stderr = <<>>

----------------------------------------------------------------------------
(* C18: the components get_components returns *)

\* the nodes that are an endpoint of some edge of the graph
Endpoints == {e[1] : e \in FwdPairs(graph)} \cup {e[2] : e \in FwdPairs(graph)}

\* the sets of cs split the endpoints into maximal sets connected by edges taken in
\* either direction
WeakPartition(cs) ==
    /\ {} \notin cs
    /\ UNION cs = Endpoints
    /\ \A n \in Endpoints : Cardinality({c \in cs : n \in c}) = 1
    /\ \A a \in Endpoints, b \in Endpoints :
          (\E c \in cs : a \in c /\ b \in c) <=> b \in Connected({a})

\* C18: in every state, whatever keys the reads of get_roots and get_leaves have left in
\* the maps, get_components returns non-empty sets of which every endpoint of an edge is
\* in exactly one, two nodes being in the same set iff edges taken in either direction
\* connect them; the components the caller holds since the last add_edge are those sets.
C18_ComponentsPartition ==
    /\ WeakPartition(get_components(graph))
    /\ components # {} => components = get_components(graph)

\* get_components has returned two components, one of two nodes or more, on a graph in
\* which an earlier get_roots or get_leaves has left a key with an empty set
C18_Witness ==
    /\ pc = "idle"
    /\ Cardinality(components) = 2
    /\ \E c \in components : Cardinality(c) >= 2
    /\ \E n \in DOMAIN graph.edges_fwd : graph.edges_fwd[n] = {}

----------------------------------------------------------------------------
(* C20: cycle warnings *)

\* C20: at every step of get_roots and get_leaves, each node a cycle warning names lies on
\* a directed cycle of the graph and in the analysed component; so a component without a
\* directed cycle gets no warning, however many paths lead to one node.
C20_NoFalseCycleWarning ==
    /\ \A i \in 1..Len(stderr) : stderr[i] \in nodes /\ OnCycle(stderr[i])
    /\ (\A n \in nodes : ~OnCycle(n)) => stderr = <<>>

\* get_roots or get_leaves has returned without a warning on the diamond of three nodes:
\* one node has edges to the two others, and one of those an edge to the other
C20_Witness ==
    /\ Returned
    /\ stderr = <<>>
    /\ ~HasCycle
    /\ Cardinality(nodes) = 3
    /\ \E n \in nodes : Cardinality(Get(graph.edges_rev, n)) = 2
    /\ \E n \in nodes : Cardinality(Get(graph.edges_fwd, n)) = 2

----------------------------------------------------------------------------
(* C19: expansion visits a node once and comes to an end *)

\* the steps gen_config_graph has left at most: the phases to come, the configured arcs
\* and tiles the cursor has to pass, and the edges and bels the loops have to take
ExpansionWorkLeft ==
    CASE cfg_pc = "config" ->
             30000 + 400 * Len(cfg_cursor.locs) - 20 * cfg_cursor.tile - cfg_cursor.arc
      [] cfg_pc = "expand" -> 20000 + Cardinality(arcs_left)
      [] cfg_pc = "close" -> 10000 + Cardinality(bels_left)
      [] OTHER -> 0

\* the calls of the iteration each loop can take next come back with the locals, whether
\* an exception is on its way up or not
NextIterationReturns ==
    /\ \A e \in arcs_left :
          visit_node(visit_node(arc_graph_add_edge(Locals, e[1], e[2]), e[1], TRUE),
                     e[2], TRUE).raised \in BOOLEAN
    /\ \A node \in bels_left :
          close_wires(Locals, node, Ascending(rtile_wires(Node_loc(node))), 1).raised \in BOOLEAN

\* C19: visit_node adds a node to nodes_seen, and goes on to process it, at most once in a
\* run; the loop over the configured arcs always has a location to read, the calls of the
\* next iteration of the loops of lines 414-418 and 424-436 return, and every step lowers
\* the work left, which is never negative.
C19_ExpansionTerminates ==
    /\ [](\A i \in 1..Len(visit_log), j \in 1..Len(visit_log) :
              visit_log[i] = visit_log[j] => i = j)
    /\ []({visit_log[i] : i \in 1..Len(visit_log)} = nodes_seen)
    /\ [](ExpansionWorkLeft >= 0)
    /\ [](cfg_pc = "config" => cfg_cursor.locs # <<>> /\ cfg_cursor.locs[1] \in DOMAIN tiles_by_loc)
    /\ [](cfg_pc \in {"expand", "close"} => NextIterationReturns)
    /\ [][ExpansionWorkLeft' < ExpansionWorkLeft]_vars

\* gen_config_graph has returned from a run in which visit_node met a node again: arc_graph
\* holds edges both ways between two visited nodes, from fixed arcs or zero-bit defaults
\* that refer to each other
C19_Witness ==
    /\ cfg_pc = "returned"
    /\ Len(visit_log) >= 3
    /\ \E a \in nodes_seen, b \in nodes_seen :
          /\ a # b
          /\ <<a, b>> \in Edges(arc_graph) \ Edges(config_graph)
          /\ <<b, a>> \in Edges(arc_graph) \ Edges(config_graph)

----------------------------------------------------------------------------
(* C21: the declarations of the signals the module refers to *)

\* the nodes the module refers to: the signals bound to the pins of the instances and the
\* right-hand sides of the assigns
Referenced ==
    UNION {IF stdout[i].kind = "instance"
           THEN {stdout[i].pins[k].node : k \in 1..Len(stdout[i].pins)}
           ELSE IF stdout[i].kind = "assign" THEN {stdout[i].source} ELSE {} :
           i \in 1..Len(stdout)}

\* how many input port lines, and how many wire lines, the output has for the node
InputPorts(n) ==
    Cardinality({i \in 1..Len(stdout) :
                    stdout[i].kind = "port" /\ stdout[i].dir = "input" /\ stdout[i].node = n})

Wires(n) == Notes("wire", n)

\* C21: once print_verilog has returned, every node bound to an instance pin or standing
\* on the right-hand side of an assign has one declaration in all: one input port line of
\* the module or one wire line, not both and not neither, pruned pass-through outputs and
\* unused inputs included in the run.
C21_DeclaredOnce ==
    pv_pc = "returned" =>
        \A r \in Referenced : InputPorts(r) + Wires(r) = 1

\* print_verilog has returned a module that binds an instance pin to a global input,
\* binds another to a wire, and assigns that wire to a global output
C21_Witness ==
    /\ pv_pc = "returned"
    /\ \E r \in Referenced : InputPorts(r) = 1 /\ Wires(r) = 0
    /\ \E i \in 1..Len(stdout) :
          /\ stdout[i].kind = "assign"
          /\ Wires(stdout[i].source) = 1
          /\ InputPorts(stdout[i].source) = 0

====
